---- MODULE Spec2Model ----
(***************************************************************************)
(* Model of the FLUX-Gen plugin modules: the submit -> poll -> download     *)
(* workflow of                                                              *)
(*   "gen"      Pipe.pipe       (src/flux-gen.py)                           *)
(*   "flux"     Pipe.pipe       (src/flux.py)                               *)
(*   "action"   Action.action   (src/flux-action.py)                        *)
(*   "pipeline" Pipeline.pipe   (src/flux-pipeline.py)                      *)
(* One behaviour is: the host configures the valves (each configuration is  *)
(* a construction of the Valves model, so its validator runs), then invokes *)
(* the entry point once.  Every network request is one step, so that the    *)
(* requests a handler issues are visible in the log reqs.                   *)
(*                                                                          *)
(* Strings that the code inspects (startswith, split, ==) are sequences of  *)
(* tokens, so that "flux-pro-1.1" is a proper prefix of                     *)
(* "flux-pro-1.1-ultra".  Time is in whole seconds.                         *)
(***************************************************************************)
EXTENDS Integers, Sequences, FiniteSets, TLC

(***************************************************************************)
(* Bounds of the model.                                                    *)
(***************************************************************************)
\* largest configured timeout (seconds)
MaxTimeout == 2
\* largest configured poll interval (seconds)
MaxPollInterval == 1
\* largest MAX_POLL_ATTEMPTS of the action
MaxAttempts == 2
\* longest time one status request takes (seconds)
MaxReqDur == 1
\* longest chat history given to the lookup of the generated image
MaxMessages == 3

Timeouts == 0..MaxTimeout
PollIntervals == 1..MaxPollInterval
AttemptLimits == 0..MaxAttempts
ReqDurs == 0..MaxReqDur
\* no polling loop with a timeout starts an iteration later than this: an
\* iteration starts at most at the timeout and adds one request and one sleep
MaxClock == MaxTimeout + MaxPollInterval + MaxReqDur

Variants == {"gen", "flux", "action", "pipeline"}

(***************************************************************************)
(* Strings as token sequences.                                              *)
(***************************************************************************)
\* str.startswith
StartsWith(s, p) == Len(p) <= Len(s) /\ SubSeq(s, 1, Len(p)) = p

FLUX_DEV == <<"flux-dev">>
FLUX_PRO == <<"flux-pro-1.1">>
FLUX_ULTRA == <<"flux-pro-1.1", "-ultra">>
FLUX_FILL == <<"flux-pro-1.0-fill">>
Endpoints == {FLUX_DEV, FLUX_PRO, FLUX_ULTRA}

\* "<endpoint>: <size>"
Choice(endpoint, size) == endpoint \o <<": ", size>>

Sizes == {"1440x1440", "1440x896", "896x1440"}
Ratios == {"1:1", "16:9", "9:16"}

DIMENSION_ENUM_VALUES ==
    {Choice(FLUX_DEV, s) : s \in Sizes} \cup {Choice(FLUX_PRO, s) : s \in Sizes}
        \cup {Choice(FLUX_ULTRA, r) : r \in Ratios}

\* DIMENSION_OPTIONS[d], for d \in DIMENSION_ENUM_VALUES
DIMENSION_OPTIONS(d) ==
    CASE d = Choice(FLUX_DEV, "1440x1440") -> [endpoint |-> FLUX_DEV, width |-> 1440, height |-> 1440]
      [] d = Choice(FLUX_DEV, "1440x896") -> [endpoint |-> FLUX_DEV, width |-> 1440, height |-> 896]
      [] d = Choice(FLUX_DEV, "896x1440") -> [endpoint |-> FLUX_DEV, width |-> 896, height |-> 1440]
      [] d = Choice(FLUX_PRO, "1440x1440") -> [endpoint |-> FLUX_PRO, width |-> 1440, height |-> 1440]
      [] d = Choice(FLUX_PRO, "1440x896") -> [endpoint |-> FLUX_PRO, width |-> 1440, height |-> 896]
      [] d = Choice(FLUX_PRO, "896x1440") -> [endpoint |-> FLUX_PRO, width |-> 896, height |-> 1440]
      [] d = Choice(FLUX_ULTRA, "1:1") -> [endpoint |-> FLUX_ULTRA, aspect_ratio |-> "1:1"]
      [] d = Choice(FLUX_ULTRA, "16:9") -> [endpoint |-> FLUX_ULTRA, aspect_ratio |-> "16:9"]
      [] d = Choice(FLUX_ULTRA, "9:16") -> [endpoint |-> FLUX_ULTRA, aspect_ratio |-> "9:16"]

\* dimension_options[d] of Pipeline.pipe, for d \in PipelineDimensions
PipelineDimensionOptions(d) ==
    CASE d = Choice(FLUX_DEV, "1440x1440") -> [endpoint |-> FLUX_DEV, width |-> 1440, height |-> 1440]
      [] d = Choice(FLUX_ULTRA, "1:1") -> [endpoint |-> FLUX_ULTRA, aspect_ratio |-> "1:1"]

\* the keys of dimension_options of Pipeline.pipe
PipelineDimensions == {Choice(FLUX_DEV, "1440x1440"), Choice(FLUX_ULTRA, "1:1")}

\* a value the host can store in the field although it is no listed choice:
\* the enum of the Field is schema information, not a validation
OTHER_DIMENSION == <<"flux-schnell", ": ", "1440x1440">>
OTHER_ENDPOINT == <<"flux-schnell">>

(***************************************************************************)
(* Valves.  A key is modelled by whether it is non-empty.                   *)
(***************************************************************************)
\* Pipe.Valves.validate_raw of flux-gen.py: TRUE when the validator raises
GenRawRejectedNoPrefixCheck(v) == v.raw /\ ~StartsWith(v.dimension, FLUX_PRO)
GenRawRejected(v) == v.raw /\ ~StartsWith(v.dimension, FLUX_ULTRA)

\* Pipe.Valves.validate_raw of flux.py: TRUE when the validator raises
FluxRawRejectedNever(v) == FALSE
FluxRawRejected(v) == v.raw /\ v.api_endpoint # FLUX_ULTRA

\* Valves(**data): the model validators of the variant's Valves class
ValvesRejected(var, v) ==
    CASE var = "gen" -> GenRawRejected(v)
      [] var = "flux" -> FluxRawRejected(v)
      [] OTHER -> FALSE

(***************************************************************************)
(* The configurations the host tries.  Numeric settings are drawn from the  *)
(* bounded sets above; the remaining fields keep their defaults.            *)
(***************************************************************************)
TestDimensions ==
    {Choice(FLUX_DEV, "1440x1440"), Choice(FLUX_PRO, "1440x896"),
     Choice(FLUX_ULTRA, "16:9"), OTHER_DIMENSION}

\* Pipe.Valves of flux-gen.py
GenValves(dims, tolerances, formats) ==
    [BFL_API_KEY : BOOLEAN, OPENAI_API_KEY : BOOLEAN, dimension : dims,
     raw : BOOLEAN, timeout : Timeouts, poll_interval : PollIntervals,
     safety_tolerance : tolerances, output_format : formats]

\* Pipe.Valves of flux.py
FluxValves(endpoints, tolerances, formats) ==
    [BFL_API_KEY : BOOLEAN, OPENAI_API_KEY : BOOLEAN, api_endpoint : endpoints,
     raw : BOOLEAN, timeout : Timeouts, poll_interval : PollIntervals,
     image_width : {1024}, image_height : {1024}, aspect_ratio : {"16:9"},
     safety_tolerance : tolerances, output_format : formats]

\* Action.Valves
ActionValves ==
    [POLL_INTERVAL : PollIntervals, MAX_POLL_ATTEMPTS : AttemptLimits,
     STEPS : {50}, GUIDANCE : {60}, SAFETY_TOLERANCE : {6}, OUTPUT_FORMAT : {"jpeg"}]

\* Pipeline.Valves
PipelineValves ==
    [BFL_API_KEY : BOOLEAN, dimension : PipelineDimensions \cup {Choice(FLUX_PRO, "1440x896")},
     output_format : {"jpeg"}, timeout : Timeouts, poll_interval : PollIntervals]

\* the data the host passes to Valves(**data) in the workflow specification
TestConfigs(var) ==
    CASE var = "gen" -> GenValves(TestDimensions, {2}, {"jpeg"})
      [] var = "flux" -> FluxValves(Endpoints \cup {OTHER_ENDPOINT}, {2}, {"jpeg"})
      [] var = "action" -> ActionValves
      [] var = "pipeline" -> PipelineValves

\* the strictest, the default and the least strict safety tolerance
TestTolerances == {0, 2, 6}

\* the data of the validation specification: every choice of dimension or
\* endpoint, raw flag and output format, with three safety tolerances
AllConfigs(var) ==
    CASE var = "gen" ->
            {v \in GenValves(DIMENSION_ENUM_VALUES \cup {OTHER_DIMENSION}, TestTolerances, {"jpeg", "png"}) :
                v.BFL_API_KEY /\ v.OPENAI_API_KEY /\ v.timeout = 0 /\ v.poll_interval = 1}
      [] var = "flux" ->
            {v \in FluxValves(Endpoints \cup {OTHER_ENDPOINT}, TestTolerances, {"jpeg", "png"}) :
                v.BFL_API_KEY /\ v.OPENAI_API_KEY /\ v.timeout = 0 /\ v.poll_interval = 1}
      [] var = "action" -> {v \in ActionValves : v.MAX_POLL_ATTEMPTS = 0 /\ v.POLL_INTERVAL = 1}
      [] var = "pipeline" -> {v \in PipelineValves : v.BFL_API_KEY /\ v.timeout = 0 /\ v.poll_interval = 1}

(***************************************************************************)
(* State.                                                                   *)
(***************************************************************************)
VARIABLES
    variant,      \* which module is loaded
    valves,       \* self.valves
    lastConfig,   \* the last Valves(**data) the host tried: data and outcome
    pc,           \* position of the invocation
    emitter,      \* TRUE when __event_emitter__ is supplied
    body,         \* the arguments of the invocation
    elapsed,      \* time.time() - (the time the submission returned)
    last_status,  \* last_status of Pipe.pipe
    attempt,      \* attempt of Action.action
    image_url,    \* the sample of the Ready response: "url" or "none"
    reqs,         \* the network requests issued so far, in order
    hist,         \* what the status responses so far were (history)
    emitted,      \* the events the last step sent to the emitter, in order
    events,       \* summary of all events sent so far
    files,        \* the files of the image cache directory
    result,       \* what the invocation returned (or raised)
    calls         \* the local variables of the invocations that run interleaved
                  \* on one instance (used by the specification of the pair)

cfgVars == <<variant, valves, lastConfig>>
runVars == <<pc, emitter, body, elapsed, last_status, attempt, image_url, reqs, hist,
             emitted, events, files, result>>
vars == <<variant, valves, lastConfig, pc, emitter, body, elapsed, last_status, attempt,
          image_url, reqs, hist, emitted, events, files, result, calls>>

NoConfig == [tried |-> FALSE]
\* no interleaved invocations
NoCalls == <<>>
NoResult == [kind |-> "none"]
NoHist ==
    [polls |-> 0,            \* status responses received
     prev |-> "",            \* status of the latest status response
     terminal |-> "",        \* first status of TerminalStatuses received
     failure |-> "",         \* first failure of a request: its kind
     readyAt |-> -1,         \* elapsed time when Ready was received
     submitted |-> FALSE,    \* the submission returned a job identifier
     post |-> "",            \* the answer to the submission, of SubmitAnswers
     refused |-> FALSE,      \* a configuration of the host was rejected
     sampled |-> FALSE,      \* a Ready response held a sample URL
     suspended |-> FALSE,    \* the coroutine was suspended after the latest status request
     starved |-> FALSE,      \* a status request followed a Pending or Processing
                             \* answer with no suspension in between
     download |-> <<"(no response)">>]   \* content type of the download response
NoEvents ==
    [doneSeen |-> FALSE,     \* a status event with done = true was sent
     afterDone |-> FALSE,    \* a status event with done = false was sent after it
     last |-> "none"]        \* done of the last status event: "none", "true", "false"

\* the state after the module is loaded and its class constructed; the
\* valves are a configuration that the Valves model accepted
InitWith(configs) ==
    /\ variant \in Variants
    /\ valves \in {v \in configs[variant] : ~ValvesRejected(variant, v)}
    /\ lastConfig = NoConfig
    /\ pc = "idle"
    /\ emitter = FALSE
    /\ body = [kind |-> "none"]
    /\ elapsed = 0
    /\ last_status = ""
    /\ attempt = 0
    /\ image_url = "none"
    /\ reqs = <<>>
    /\ hist = NoHist
    /\ emitted = <<>>
    /\ events = NoEvents
    /\ files \in {{}, {[name |-> 0, ext |-> ".png", complete |-> TRUE]}}
    /\ result = NoResult

Init == InitWith([var \in Variants |-> TestConfigs(var)]) /\ calls = NoCalls

\* The host stores new settings: Valves(**data).  When a validator raises,
\* the construction fails and the valves stay as they were.
ConfigureFrom(configs) ==
    /\ pc = "idle"
    /\ \E data \in configs[variant] :
          /\ lastConfig' = [tried |-> TRUE, data |-> data,
                            rejected |-> ValvesRejected(variant, data)]
          /\ valves' = IF ValvesRejected(variant, data) THEN valves ELSE data
          /\ hist' = [hist EXCEPT !.refused = @ \/ ValvesRejected(variant, data)]
    /\ UNCHANGED <<variant, calls, pc, emitter, body, elapsed, last_status, attempt, image_url, reqs,
                   emitted, events, files, result>>

Configure == ConfigureFrom([var \in Variants |-> TestConfigs(var)])

(***************************************************************************)
(* Events and results.                                                      *)
(***************************************************************************)
\* status_object(description, status, done)
status_object(description, status, done) ==
    [type |-> "status", status |-> status, description |-> description, done |-> done]

\* what __event_emitter__ receives: nothing when no emitter is supplied
\* (every `if __event_emitter__:` of the handlers)
EmitIf(em, evs) == IF em THEN evs ELSE <<>>
Emit(evs) == EmitIf(emitter, evs)

\* status_object(error_msg, "error", True)
ErrorEvent(description) == status_object(description, "error", TRUE)
\* status_object(description): status "in_progress", done False
Progress(description) == status_object(description, "in_progress", FALSE)

RECURSIVE Summarise(_, _)
\* the summary of the events after evs were sent
Summarise(sum, evs) ==
    IF evs = <<>> THEN sum
    ELSE LET e == Head(evs)
             next == IF e.type # "status" THEN sum
                     ELSE [sum EXCEPT !.doneSeen = sum.doneSeen \/ e.done,
                                      !.afterDone = sum.afterDone \/ (sum.doneSeen /\ ~e.done),
                                      !.last = IF e.done THEN "true" ELSE "false"]
         IN  Summarise(next, Tail(evs))

\* a step that sends evs
Sends(evs) ==
    /\ emitted' = evs
    /\ events' = Summarise(events, evs)

\* a request of the log
Request(kind, what) == [kind |-> kind, what |-> what, afterTerminal |-> hist.terminal # "",
                        afterFailure |-> hist.failure]

\* no path: None, or no image marker
NoPath == [name |-> -1, ext |-> ""]

\* an error result: the kind of message and the text it holds
ErrorAsSuccess(kind, named) == [kind |-> kind, ok |-> TRUE, named |-> named, marker |-> NoPath]
Error(kind, named) == [kind |-> kind, ok |-> FALSE, named |-> named, marker |-> NoPath]
\* an exception that leaves the entry point
Raised(what) == [kind |-> "raised", ok |-> FALSE, named |-> what, marker |-> NoPath]
\* a success result; marker: the path of the ![BFL Image](path) it holds or
\* has sent in a message event; content: the text returned
Success(path, content) ==
    [kind |-> "success", ok |-> TRUE, named |-> <<>>, marker |-> path, content |-> content]

\* the invocation returns (or raises) res after sending evs
Finish(res, evs) ==
    /\ pc' = "done"
    /\ result' = res
    /\ Sends(evs)

TerminalStatuses == {"Ready", "Error", "Content Moderated", "Request Moderated", "Task not found"}
FailureStatuses == TerminalStatuses \ {"Ready"}
\* the statuses the service is modelled to answer: the seven known ones,
\* one unknown one, and a body without a status ("")
ServiceStatuses == TerminalStatuses \cup {"Pending", "Processing", "Queued", ""}

\* the answers to a status request; sample: the result object holds a sample
StatusAnswers ==
    [kind : {"status"}, status : ServiceStatuses \ {"Ready"}, sample : {FALSE}]
        \cup [kind : {"status"}, status : {"Ready"}, sample : BOOLEAN]
        \cup [kind : {"transport", "unparsable"}, status : {""}, sample : {FALSE}]

\* hist after the status answer a arrived at time t
Heard(a, t) ==
    IF a.kind # "status"
    THEN [hist EXCEPT !.failure = IF @ = "" THEN "get_result" ELSE @]
    ELSE [hist EXCEPT !.polls = @ + 1,
                      !.prev = a.status,
                      !.suspended = FALSE,
                      !.starved = @ \/ (hist.prev \in {"Pending", "Processing"} /\ ~hist.suspended),
                      !.terminal = IF @ = "" /\ a.status \in TerminalStatuses THEN a.status ELSE @,
                      !.failure = IF @ = "" /\ a.status \in FailureStatuses THEN "get_result" ELSE @,
                      !.readyAt = IF @ = -1 /\ a.status = "Ready" THEN t ELSE @,
                      !.sampled = a.sample]

\* hist after the step awaited the emitter for evs: an await of the emitter
\* suspends the coroutine when the host's emitter itself waits for something,
\* and returns at once when it does not
AfterAwait(h, evs) ==
    IF evs = <<>> THEN {h} ELSE {[h EXCEPT !.suspended = y] : y \in BOOLEAN}

\* hist after `await asyncio.sleep(...)`: the event loop runs the other tasks
\* that are ready before it resumes the coroutine, also for a delay of 0
AfterSleep == [hist EXCEPT !.suspended = TRUE]

\* hist after a request of the given kind failed
Failed(kind) == [hist EXCEPT !.failure = IF @ = "" THEN kind ELSE @]

\* the answers to the submission: a job identifier; a transport or HTTP
\* failure; a JSON object without "id"; one whose "id" is null or empty; a
\* body that is no JSON
SubmitAnswers == {"ok", "transport", "no_id", "empty_id", "unparsable"}

\* hist after the submission was answered
Accepted == [hist EXCEPT !.submitted = TRUE, !.post = "ok"]
Refused(answer) == [Failed("post") EXCEPT !.post = answer]

\* hist after the download answer a: ok tells whether the materializer returned
Downloaded(a, ok) ==
    [hist EXCEPT !.failure = IF @ = "" /\ ~ok THEN "download" ELSE @,
                 !.download = IF a.kind = "transport" THEN @ ELSE a.type]

(***************************************************************************)
(* The image cache directory and the download.                              *)
(***************************************************************************)
IMAGE_PNG == <<"image", "/png">>
IMAGE_JPEG == <<"image", "/jpeg">>
IMAGE_OTHER == <<"image", "/x-other">>
TEXT_HTML == <<"text", "/html">>
OCTET_STREAM == <<"application", "/octet-stream">>
EMPTY_TYPE == <<>>
\* a media type followed by a parameter, as a Content-Type header may hold
IMAGE_PNG_PARAM == <<"image", "/png", "; charset=binary">>
\* the response has no content-type header
NO_HEADER == <<"(no header)">>
ContentTypes ==
    {IMAGE_PNG, IMAGE_JPEG, IMAGE_OTHER, TEXT_HTML, OCTET_STREAM, EMPTY_TYPE, IMAGE_PNG_PARAM,
     NO_HEADER}

\* mimetypes.guess_extension(type), "none" for None: the lookup of the whole
\* string in the table of types, so a type with a parameter is not found
guess_extension(type) ==
    CASE type = IMAGE_PNG -> ".png"
      [] type = IMAGE_JPEG -> ".jpg"
      [] type = TEXT_HTML -> ".html"
      [] type = OCTET_STREAM -> ".bin"
      [] OTHER -> "none"

\* the answers to the download request: a transport or HTTP failure, a
\* complete body, or a body whose stream breaks after the first chunks
DownloadAnswers ==
    [kind : {"transport"}, type : {NO_HEADER}] \cup [kind : {"ok", "broken"}, type : ContentTypes]

\* str(uuid.uuid4()): a name no file of the directory has
FreshId == CHOOSE n \in 1..(Cardinality(files) + 1) : \A f \in files : f.name # n

\* open(file_path, "wb") and the writes of the chunks
Written(name, ext, complete) == files \cup {[name |-> name, ext |-> ext, complete |-> complete]}

\* "/cache/image/generations/<name><ext>"
CachePath(name, ext) == [name |-> name, ext |-> ext]

\* the path of the file the cache directory may hold before the invocation
OLD_IMAGE == CachePath(0, ".png")

\* The content of a chat message is a sequence of tokens: plain text, the
\* opening "![BFL Image](" of the image marker, a path, the closing ")", and
\* the opening fence of an html or json code block.
Text == [tok |-> "text", path |-> NoPath]
MarkerOpen == [tok |-> "![BFL Image](", path |-> NoPath]
MarkerClose == [tok |-> ")", path |-> NoPath]
\* "```html", the opening fence of an html code block, and "```json"
HtmlFence == [tok |-> "(html fence)", path |-> NoPath]
JsonFence == [tok |-> "(json fence)", path |-> NoPath]
PathToken(path) == [tok |-> "path", path |-> path]

\* f"...![BFL Image]({local_image_path})"
Marker(path) == <<Text, MarkerOpen, PathToken(path), MarkerClose>>

\* Pipe.save_url_image (flux-gen.py, flux.py) on the download answer a:
\* whether it returns, the directory afterwards, the path returned
PipeSaveUrlImage(a) ==
    LET image_id == FreshId
        image_format == IF guess_extension(a.type) # "none" THEN guess_extension(a.type) ELSE ".png"
    IN  IF a.kind = "transport" \/ a.type = NO_HEADER \/ ~StartsWith(a.type, <<"image">>)
        THEN [ok |-> FALSE, files |-> files, path |-> NoPath]
        ELSE IF a.kind = "broken"
        THEN [ok |-> FALSE, files |-> Written(image_id, image_format, FALSE), path |-> NoPath]
        ELSE [ok |-> TRUE, files |-> Written(image_id, image_format, TRUE),
              path |-> CachePath(image_id, image_format)]

(***************************************************************************)
(* Pipe.pipe of flux-gen.py and of flux.py.  The two differ in the valves   *)
(* and in the payload of the generation request.                            *)
(***************************************************************************)
IsPipe == variant \in {"gen", "flux"}

\* the payload and endpoint of Pipe.send_image_generation_request, flux-gen.py
GenRequest(v) ==
    LET dimension_choice == DIMENSION_OPTIONS(v.dimension)
        common == [prompt |-> "translated", safety_tolerance |-> v.safety_tolerance,
                   output_format |-> v.output_format]
    IN  [url |-> dimension_choice.endpoint,
         payload |-> IF dimension_choice.endpoint = FLUX_ULTRA
                     THEN common @@ [raw |-> v.raw, aspect_ratio |-> dimension_choice.aspect_ratio]
                     ELSE common @@ [width |-> dimension_choice.width,
                                     height |-> dimension_choice.height]]

\* the payload and endpoint of Pipe.send_image_generation_request, flux.py
FluxRequest(v) ==
    [url |-> v.api_endpoint,
     payload |-> [prompt |-> "translated", width |-> v.image_width, height |-> v.image_height,
                  raw |-> v.raw, aspect_ratio |-> v.aspect_ratio,
                  safety_tolerance |-> v.safety_tolerance, output_format |-> v.output_format]]

\* status_messages.get(status, f"Unknown status: {status}")
status_messages(status) ==
    CASE status = "Ready" -> <<"Ready">>
      [] status = "Pending" -> <<"Standing by...">>
      [] status = "Processing" -> <<"Generating...">>
      [] status = "Error" -> <<"Error">>
      [] status = "Content Moderated" -> <<"Inadmissible content">>
      [] status = "Request Moderated" -> <<"Incorrect request">>
      [] status = "Task not found" -> <<"Task not found">>
      [] OTHER -> <<"Unknown status: ", status>>

\* the status update of the polling loop of Pipe.pipe
PipeStatusUpdate(status) ==
    status_object(status_messages(status),
                  IF status \notin {"Ready", "Error"} THEN "in_progress" ELSE "complete",
                  status \in {"Ready", "Error"})

\* `if status != last_status:` of Pipe.pipe
PipeStatusChangedAlways(status, last) == TRUE
PipeStatusChanged(status, last) == status # last

\* `if time.time() - start_time > self.valves.timeout:` of Pipe.pipe
PipeTimedOutNever(t, timeout) == FALSE
PipeTimedOutAtLimit(t, timeout) == t >= timeout
PipeTimedOut(t, timeout) == t > timeout

\* the break condition of the polling loop of Pipe.pipe
PipeTerminal(status) ==
    status \in {"Ready", "Error", "Content Moderated", "Request Moderated", "Task not found"}

\* get_last_user_message(body["messages"]): plain text, or text that itself
\* holds an image marker (the user quotes an earlier answer)
TestPrompts == {<<Text>>, <<Text, MarkerOpen, PathToken(OLD_IMAGE), MarkerClose>>}

\* the text Pipe.pipe returns: the original prompt, the optimized prompt and
\* the image marker
PipeContent(original_prompt, local_image_path) ==
    <<Text>> \o original_prompt \o <<Text, Text, MarkerOpen, PathToken(local_image_path), MarkerClose>>

\* Pipe.pipe up to the first request: the key checks and the first event of
\* translate_prompt.  translate_prompt awaits the emitter without testing
\* it, so without an emitter it raises, and pipe returns an error.
\* `if not self.valves.BFL_API_KEY:`: the key is the empty string
KeyNotSetNever(key) == FALSE
KeyNotSet(key) == ~key

PipeStart ==
    /\ pc = "idle" /\ IsPipe
    /\ \E em \in BOOLEAN :
          /\ emitter' = em
          /\ IF KeyNotSet(valves.BFL_API_KEY)
             THEN Finish(Error("unknown_error", <<"BFL API key not set">>),
                         EmitIf(em, <<ErrorEvent(<<"Unknown error: ", "BFL API key not set">>)>>))
             ELSE IF KeyNotSet(valves.OPENAI_API_KEY)
             THEN Finish(Error("unknown_error", <<"OpenAI API key not set">>),
                         EmitIf(em, <<ErrorEvent(<<"Unknown error: ", "OpenAI API key not set">>)>>))
             ELSE IF ~em
             THEN Finish(Error("unknown_error", <<"TypeError">>), <<>>)
             ELSE /\ pc' = "translate"
                  /\ Sends(<<Progress(<<"Normalization and translation of prompt...">>)>>)
                  /\ UNCHANGED result
    /\ \E original_prompt \in TestPrompts : body' = [kind |-> "chat", prompt |-> original_prompt]
    /\ lastConfig' = NoConfig
    /\ UNCHANGED <<variant, calls, valves, elapsed, last_status, attempt, image_url, reqs, hist, files>>

\* Pipe.translate_prompt: the chat-completion request, and pipe up to the
\* generation request
PipeTranslateGoesOn ==
    /\ pc = "translate" /\ IsPipe
    /\ reqs' = Append(reqs, Request("translate", <<"chat/completions">>))
    /\ \E ok \in BOOLEAN :
          /\ pc' = "submit"
          /\ Sends(<<Progress(<<"Start of generation...">>),
                     Progress(<<"Sending a request to Flux...">>)>>)
          /\ hist' = IF ok THEN hist ELSE Failed("translate")
          /\ UNCHANGED result
    /\ UNCHANGED <<cfgVars, calls, emitter, body, elapsed, last_status, attempt, image_url, files>>
PipeTranslate ==
    /\ pc = "translate" /\ IsPipe
    /\ reqs' = Append(reqs, Request("translate", <<"chat/completions">>))
    /\ \E ok \in BOOLEAN :
          IF ok
          THEN /\ pc' = "submit"
               /\ Sends(<<Progress(<<"Optimized prompt: ", "translated">>),
                          Progress(<<"Start of generation...">>),
                          Progress(<<"Sending a request to Flux...">>)>>)
               /\ UNCHANGED <<result, hist>>
          ELSE /\ Finish(Error("unknown_error", <<"Translation error">>),
                         <<ErrorEvent(<<"Translation error">>),
                           ErrorEvent(<<"Unknown error: ", "Translation error">>)>>)
               /\ hist' = Failed("translate")
    /\ UNCHANGED <<cfgVars, calls, emitter, body, elapsed, last_status, attempt, image_url, files>>

\* Pipe.send_image_generation_request and the start of the polling
PipeSubmit ==
    /\ pc = "submit" /\ IsPipe
    /\ IF variant = "gen" /\ valves.dimension \notin DIMENSION_ENUM_VALUES
       THEN \* DIMENSION_OPTIONS[...] raises KeyError: no request is made
            /\ Finish(Error("unknown_error", <<"KeyError">>),
                      Emit(<<ErrorEvent(<<"Unknown error: ", "KeyError">>)>>))
            /\ UNCHANGED <<reqs, hist>>
       ELSE /\ reqs' = Append(reqs, Request("post", IF variant = "gen" THEN GenRequest(valves)
                                                                      ELSE FluxRequest(valves)))
            /\ \E answer \in SubmitAnswers :
                  CASE answer = "ok" ->
                          /\ pc' = "loop"
                          /\ Sends(Emit(<<Progress(<<"Waiting for generation to start...">>)>>))
                          /\ hist' = Accepted
                          /\ UNCHANGED result
                    [] answer = "transport" ->
                          /\ Finish(Error("request_error", <<"Request error">>),
                                    Emit(<<ErrorEvent(<<"Request error">>)>>))
                          /\ hist' = Refused(answer)
                    [] answer = "no_id" ->
                          /\ Finish(Error("unknown_error", <<"KeyError">>),
                                    Emit(<<ErrorEvent(<<"Unknown error: ", "KeyError">>)>>))
                          /\ hist' = Refused(answer)
                    [] answer = "empty_id" ->
                          \* response.json()["id"] is returned untested: the
                          \* polling starts with it
                          /\ pc' = "loop"
                          /\ Sends(Emit(<<Progress(<<"Waiting for generation to start...">>)>>))
                          /\ hist' = Refused(answer)
                          /\ UNCHANGED result
                    [] answer = "unparsable" ->
                          \* a JSONDecodeError is a RequestException or only a
                          \* ValueError, depending on the requests release
                          /\ \E kind \in {"request_error", "unknown_error"} :
                                Finish(Error(kind, <<"JSONDecodeError">>),
                                       Emit(<<ErrorEvent(<<"JSONDecodeError">>)>>))
                          /\ hist' = Refused(answer)
    /\ elapsed' = 0
    /\ last_status' = ""
    /\ UNCHANGED <<cfgVars, calls, emitter, body, attempt, image_url, files>>

\* the head of the polling loop of Pipe.pipe when the time is up
PipeTimeout ==
    /\ pc = "loop" /\ IsPipe
    /\ PipeTimedOut(elapsed, valves.timeout)
    /\ Finish(Error("timeout", <<"Timeout">>), Emit(<<ErrorEvent(<<"Timeout">>)>>))
    /\ UNCHANGED <<cfgVars, calls, emitter, body, elapsed, last_status, attempt, image_url, reqs, hist, files>>

\* one iteration of the polling loop of Pipe.pipe, up to the sleep: the
\* status request, which takes d seconds, the status update and the break
PipePoll ==
    /\ pc = "loop" /\ IsPipe
    /\ ~PipeTimedOut(elapsed, valves.timeout)
    /\ elapsed <= MaxClock
    /\ reqs' = Append(reqs, Request("get_result", <<"get_result">>))
    /\ \E a \in StatusAnswers, d \in ReqDurs :
          /\ elapsed' = elapsed + d
          /\ CASE a.kind = "transport" ->
                    /\ Finish(Error("request_error", <<"Request error">>),
                              Emit(<<ErrorEvent(<<"Request error">>)>>))
                    /\ UNCHANGED <<last_status, image_url>>
               [] a.kind = "unparsable" ->
                    /\ \E kind \in {"request_error", "unknown_error"} :
                          Finish(Error(kind, <<"JSONDecodeError">>),
                                 Emit(<<ErrorEvent(<<"JSONDecodeError">>)>>))
                    /\ UNCHANGED <<last_status, image_url>>
               [] a.kind = "status" ->
                    LET status == a.status
                        update == IF PipeStatusChanged(status, last_status)
                                  THEN Emit(<<PipeStatusUpdate(status)>>) ELSE <<>>
                    IN  /\ last_status' = status
                        /\ IF ~PipeTerminal(status)
                           THEN /\ pc' = "sleep"
                                /\ Sends(update)
                                /\ UNCHANGED <<result, image_url>>
                           ELSE IF status # "Ready"
                           THEN /\ Finish(Error("unknown_error", <<status>>),
                                          update \o Emit(<<ErrorEvent(<<"Unknown error: ", status>>)>>))
                                /\ UNCHANGED image_url
                           ELSE IF ~a.sample
                           THEN \* result["result"]["sample"] raises KeyError
                                /\ Finish(Error("unknown_error", <<"KeyError">>),
                                          update \o Emit(<<Progress(<<"Saving result...">>),
                                                           ErrorEvent(<<"Unknown error: ", "KeyError">>)>>))
                                /\ UNCHANGED image_url
                           ELSE /\ pc' = "download"
                                /\ image_url' = "url"
                                /\ Sends(update \o Emit(<<Progress(<<"Saving result...">>)>>))
                                /\ UNCHANGED result
          /\ hist' \in AfterAwait(Heard(a, elapsed + d), emitted')
    /\ UNCHANGED <<cfgVars, calls, emitter, body, attempt, files>>

\* `await asyncio.sleep(self.valves.poll_interval)` of Pipe.pipe
PipeSleep ==
    /\ pc = "sleep" /\ IsPipe
    /\ elapsed' = elapsed + valves.poll_interval
    /\ pc' = "loop"
    /\ Sends(<<>>)
    /\ hist' = AfterSleep
    /\ UNCHANGED <<cfgVars, calls, emitter, body, last_status, attempt, image_url, reqs, files, result>>

\* save_url_image and the return of Pipe.pipe
PipeDownload ==
    /\ pc = "download" /\ IsPipe
    /\ reqs' = Append(reqs, Request("download", <<"sample">>))
    /\ \E a \in DownloadAnswers :
          LET saved == PipeSaveUrlImage(a)
          IN  /\ files' = saved.files
              /\ IF saved.ok
                 THEN Finish(Success(saved.path, PipeContent(body.prompt, saved.path)),
                             Emit(<<status_object(<<"Image generated">>, "complete", TRUE)>>))
                 ELSE Finish(Error("unknown_error", <<"Error saving image">>),
                             Emit(<<ErrorEvent(<<"Unknown error: ", "Error saving image">>)>>))
              /\ hist' = Downloaded(a, saved.ok)
    /\ UNCHANGED <<cfgVars, calls, emitter, body, elapsed, last_status, attempt, image_url>>

(***************************************************************************)
(* Pipeline.pipe of flux-pipeline.py.  It is synchronous and has no event   *)
(* emitter.                                                                 *)
(***************************************************************************)
IsPipeline == variant = "pipeline"

RECURSIVE AfterComma(_)
\* base64_string.split(',', 1)[1], for a string that holds a comma
AfterComma(str) == IF Head(str) = "," THEN Tail(str) ELSE AfterComma(Tail(str))

\* base64_string forwarded as it is
ProcessBase64Unchanged(base64_string) == base64_string
\* Pipeline._process_base64_image
_process_base64_image(base64_string) ==
    IF \E i \in 1..Len(base64_string) : base64_string[i] = ","
    THEN AfterComma(base64_string)
    ELSE base64_string

\* a data URL "data:image/png;base64,iVBOR" and its base64 body
WITH_PREFIX == <<"data:", "image/png", ";base64", ",", "iVBOR">>
WITHOUT_PREFIX == <<"iVBOR">>

\* body["inpainting_data"]: absent, or the data of the mask widget
InpaintingData ==
    {[present |-> FALSE, originalBase64 |-> <<>>, maskBase64 |-> <<>>],
     [present |-> TRUE, originalBase64 |-> WITH_PREFIX, maskBase64 |-> WITHOUT_PREFIX],
     [present |-> TRUE, originalBase64 |-> WITHOUT_PREFIX, maskBase64 |-> WITH_PREFIX]}

\* `if inpainting_data and model_id == "flux-pro-fill":`
PipelineInpainting(b) == b.inpainting_data.present /\ b.model_id = "flux-pro-fill"

\* `dimension not in dimension_options` of Pipeline.pipe, negated
PipelineSupportsListed(d) == d \in DIMENSION_ENUM_VALUES
PipelineSupports(d) == d \in PipelineDimensions

\* the payload and url that Pipeline.pipe builds
PipelineRequest(b, v) ==
    IF PipelineInpainting(b)
    THEN [url |-> FLUX_FILL,
          payload |-> [image |-> _process_base64_image(b.inpainting_data.originalBase64),
                       mask |-> _process_base64_image(b.inpainting_data.maskBase64),
                       prompt |-> "promptText", output_format |-> v.output_format,
                       steps |-> 50, guidance |-> 60, prompt_upsampling |-> FALSE]]
    ELSE LET options == PipelineDimensionOptions(v.dimension)
             common == [prompt |-> "user_message", output_format |-> v.output_format]
         IN  [url |-> options.endpoint,
              payload |-> IF "width" \in DOMAIN options
                          THEN common @@ [width |-> options.width, height |-> options.height]
                          ELSE common @@ [aspect_ratio |-> options.aspect_ratio]]

\* `while time.time() - start_time < self.valves.timeout:` of Pipeline.pipe
PipelineInTime(t, timeout) == t < timeout

\* the statuses at which the loop of Pipeline.pipe returns an error
PipelineFailure(status) == status \in {"Error", "Content Moderated", "Request Moderated"}

\* f"![BFL Image]({local_path})" of Pipeline.pipe
PipelineContent(local_path) == <<MarkerOpen, PathToken(local_path), MarkerClose>>

\* Pipeline._save_image on the download answer a
PipelineSaveImage(a) ==
    LET extension == IF guess_extension(a.type) # "none" THEN guess_extension(a.type) ELSE ".jpeg"
        image_id == FreshId
    IN  IF a.kind = "transport" \/ a.type = NO_HEADER
        THEN [ok |-> FALSE, files |-> files, path |-> NoPath]
        ELSE IF a.kind = "broken"
        THEN [ok |-> FALSE, files |-> Written(image_id, extension, FALSE), path |-> NoPath]
        ELSE [ok |-> TRUE, files |-> Written(image_id, extension, TRUE),
              path |-> CachePath(image_id, extension)]

\* Pipeline.pipe up to the submission: the key check and the payload
PipelineStart ==
    /\ pc = "idle" /\ IsPipeline
    /\ \E model_id \in {"flux-image-gen", "flux-pro-fill"}, data \in InpaintingData :
          LET b == [kind |-> "pipeline", model_id |-> model_id, inpainting_data |-> data]
          IN  /\ body' = b
              /\ IF KeyNotSet(valves.BFL_API_KEY)
                 THEN Finish(Error("no_key", <<"API key not set">>), <<>>)
                 ELSE IF ~PipelineInpainting(b) /\ ~PipelineSupports(valves.dimension)
                 THEN Finish(Error("unsupported_dimension", <<"resolution not supported">>), <<>>)
                 ELSE /\ pc' = "submit"
                      /\ Sends(<<>>)
                      /\ UNCHANGED result
    /\ emitter' = FALSE
    /\ lastConfig' = NoConfig
    /\ UNCHANGED <<variant, calls, valves, elapsed, last_status, attempt, image_url, reqs, hist, files>>

\* the submission of Pipeline.pipe
PipelineSubmit ==
    /\ pc = "submit" /\ IsPipeline
    /\ reqs' = Append(reqs, Request("post", PipelineRequest(body, valves)))
    /\ \E answer \in SubmitAnswers :
          CASE answer = "ok" ->
                  /\ pc' = "loop"
                  /\ Sends(<<>>)
                  /\ hist' = Accepted
                  /\ UNCHANGED result
            [] answer = "transport" ->
                  /\ Finish(Error("request_error", <<"Request error">>), <<>>)
                  /\ hist' = Refused(answer)
            [] answer \in {"no_id", "empty_id"} ->
                  /\ Finish(Error("no_id", <<"no task id">>), <<>>)
                  /\ hist' = Refused(answer)
            [] answer = "unparsable" ->
                  /\ \E kind \in {"request_error", "unknown_error"} :
                        Finish(Error(kind, <<"JSONDecodeError">>), <<>>)
                  /\ hist' = Refused(answer)
    /\ elapsed' = 0
    /\ UNCHANGED <<cfgVars, calls, emitter, body, last_status, attempt, image_url, files>>

\* the loop condition of Pipeline.pipe is false: the timeout
PipelineTimeout ==
    /\ pc = "loop" /\ IsPipeline
    /\ ~PipelineInTime(elapsed, valves.timeout)
    /\ Finish(Error("timeout", <<"Timeout">>), <<>>)
    /\ UNCHANGED <<cfgVars, calls, emitter, body, elapsed, last_status, attempt, image_url, reqs, hist, files>>

\* one iteration of the loop of Pipeline.pipe, up to the sleep or the download
PipelinePoll ==
    /\ pc = "loop" /\ IsPipeline
    /\ PipelineInTime(elapsed, valves.timeout)
    /\ elapsed <= MaxClock
    /\ reqs' = Append(reqs, Request("get_result", <<"get_result">>))
    /\ \E a \in StatusAnswers, d \in ReqDurs :
          /\ elapsed' = elapsed + d
          /\ hist' = Heard(a, elapsed + d)
          /\ CASE a.kind = "transport" ->
                    /\ Finish(Error("request_error", <<"Request error">>), <<>>)
                    /\ UNCHANGED image_url
               [] a.kind = "unparsable" ->
                    /\ \E kind \in {"request_error", "unknown_error"} :
                          Finish(Error(kind, <<"JSONDecodeError">>), <<>>)
                    /\ UNCHANGED image_url
               [] a.kind = "status" ->
                    IF a.status = "Ready"
                    THEN /\ pc' = "download"
                         /\ image_url' = IF a.sample THEN "url" ELSE "none"
                         /\ Sends(<<>>)
                         /\ UNCHANGED result
                    ELSE IF PipelineFailure(a.status)
                    THEN /\ Finish(Error("status_error", <<a.status>>), <<>>)
                         /\ UNCHANGED image_url
                    ELSE /\ pc' = "sleep"
                         /\ Sends(<<>>)
                         /\ UNCHANGED <<result, image_url>>
    /\ UNCHANGED <<cfgVars, calls, emitter, body, last_status, attempt, files>>

\* `time.sleep(self.valves.poll_interval)` of Pipeline.pipe
PipelineSleep ==
    /\ pc = "sleep" /\ IsPipeline
    /\ elapsed' = elapsed + valves.poll_interval
    /\ pc' = "loop"
    /\ Sends(<<>>)
    /\ UNCHANGED <<cfgVars, calls, emitter, body, last_status, attempt, image_url, reqs, hist, files, result>>

\* _save_image and the return of Pipeline.pipe
PipelineDownload ==
    /\ pc = "download" /\ IsPipeline
    /\ IF image_url = "none"
       THEN \* requests.get(None) raises MissingSchema before any request
            /\ Finish(Error("request_error", <<"MissingSchema">>), <<>>)
            /\ UNCHANGED <<reqs, hist, files>>
       ELSE /\ reqs' = Append(reqs, Request("download", <<"sample">>))
            /\ \E a \in DownloadAnswers :
                  LET saved == PipelineSaveImage(a)
                  IN  /\ files' = saved.files
                      /\ IF saved.ok
                         THEN Finish(Success(saved.path, PipelineContent(saved.path)), <<>>)
                         ELSE \E kind \in {"request_error", "unknown_error"} :
                                 Finish(Error(kind, <<"download">>), <<>>)
                      /\ hist' = Downloaded(a, saved.ok)
    /\ UNCHANGED <<cfgVars, calls, emitter, body, elapsed, last_status, attempt, image_url>>

PipelineNext ==
    PipelineStart \/ PipelineSubmit \/ PipelineTimeout \/ PipelinePoll \/ PipelineSleep
        \/ PipelineDownload

(***************************************************************************)
(* Action.action of flux-action.py.                                         *)
(***************************************************************************)
IsAction == variant = "action"

\* the end of the first run of one or more non-")" tokens that starts at i
\* and is followed by ")": the match of ([^)]+)\) at i, 0 when there is none
GroupEnd(content, i) ==
    IF \E j \in i..Len(content) : content[j] = MarkerClose
    THEN LET j == CHOOSE k \in i..Len(content) :
                     /\ content[k] = MarkerClose
                     /\ \A m \in i..(k - 1) : content[m] # MarkerClose
         IN  IF j > i THEN j - 1 ELSE 0
    ELSE 0

\* re.search(r"!\[BFL Image\]\(([^)]+)\)", content): the positions at which
\* the pattern matches
MarkerMatches(content) ==
    {i \in 1..Len(content) : content[i] = MarkerOpen /\ GroupEnd(content, i + 1) # 0}

\* the group of the first match if it ran up to the last ")" of the content
MarkerGroupGreedy(content) ==
    LET i == CHOOSE k \in MarkerMatches(content) : \A m \in MarkerMatches(content) : k <= m
        j == CHOOSE k \in 1..Len(content) :
                 content[k] = MarkerClose /\ \A m \in (k + 1)..Len(content) : content[m] # MarkerClose
    IN  SubSeq(content, i + 1, j - 1)
\* match.group(1) of the first match
MarkerGroup(content) ==
    LET i == CHOOSE k \in MarkerMatches(content) : \A m \in MarkerMatches(content) : k <= m
    IN  SubSeq(content, i + 1, GroupEnd(content, i + 1))

RECURSIVE FindInAnyRole(_)
\* the lookup if it did not test msg.get("role")
FindInAnyRole(messages) ==
    IF messages = <<>> THEN <<>>
    ELSE LET msg == messages[Len(messages)]
         IN  IF /\ \E i \in 1..Len(msg.content) : msg.content[i] = MarkerOpen
                /\ MarkerMatches(msg.content) # {}
             THEN MarkerGroup(msg.content)
             ELSE FindInAnyRole(SubSeq(messages, 1, Len(messages) - 1))

RECURSIVE find_generated_image_path(_)
\* Action.find_generated_image_path: the group of the last assistant message
\* that matches, <<>> for None
find_generated_image_path(messages) ==
    IF messages = <<>> THEN <<>>
    ELSE LET msg == messages[Len(messages)]
         IN  IF /\ msg.role = "assistant"
                /\ \E i \in 1..Len(msg.content) : msg.content[i] = MarkerOpen
                /\ MarkerMatches(msg.content) # {}
             THEN MarkerGroup(msg.content)
             ELSE find_generated_image_path(SubSeq(messages, 1, Len(messages) - 1))

RECURSIVE FindOldestArtifact(_)
\* the lookup if it went through messages and not through reversed(messages)
FindOldestArtifact(messages) ==
    IF messages = <<>> THEN [found |-> FALSE, id |-> ""]
    ELSE LET msg == Head(messages)
         IN  IF /\ msg.role = "assistant"
                /\ \E i \in 1..Len(msg.content) : msg.content[i] \in {HtmlFence, JsonFence}
             THEN [found |-> TRUE, id |-> msg.id]
             ELSE FindOldestArtifact(Tail(messages))

RECURSIVE find_existing_artifact_message(_)
\* Action.find_existing_artifact_message: [found |-> FALSE] for None
find_existing_artifact_message(messages) ==
    IF messages = <<>> THEN [found |-> FALSE, id |-> ""]
    ELSE LET msg == messages[Len(messages)]
         IN  IF /\ msg.role = "assistant"
                /\ \E i \in 1..Len(msg.content) : msg.content[i] \in {HtmlFence, JsonFence}
             THEN [found |-> TRUE, id |-> msg.id]
             ELSE find_existing_artifact_message(SubSeq(messages, 1, Len(messages) - 1))

\* (IMAGE_CACHE_DIR / os.path.basename(image_path)).exists()
CachedFileExistsAlways(image_path) == TRUE
CachedFileExists(image_path) ==
    /\ Len(image_path) = 1
    /\ image_path[1].tok = "path"
    /\ \E f \in files : f.name = image_path[1].path.name /\ f.ext = image_path[1].path.ext

Message(role, content, id) == [role |-> role, content |-> content, id |-> id]

\* body["messages"] in the invocations of the model
TestHistories ==
    {<<>>,
     <<Message("user", <<Text>>, "u1")>>,
     <<Message("user", Marker(OLD_IMAGE), "u1")>>,
     <<Message("assistant", Marker(OLD_IMAGE), "a1")>>,
     <<Message("assistant", Marker(OLD_IMAGE), "a1"), Message("assistant", <<HtmlFence, Text>>, "a2")>>,
     <<Message("assistant", Marker(OLD_IMAGE), "a1"), Message("assistant", <<HtmlFence, Text>>, "")>>}

\* the keys among image, mask and prompt that the body holds
TestKeys == {{}, {"image", "mask"}, {"image", "mask", "prompt"}}

\* stripBase64Prefix of the widget's script: the group of
\* /^data:.*?;base64,(.*)$/ when it matches and is not empty
stripBase64Prefix(dataURL) ==
    LET ends == {k \in 2..(Len(dataURL) - 1) : dataURL[k] = ";base64" /\ dataURL[k + 1] = ","}
    IN  IF dataURL # <<>> /\ Head(dataURL) = "data:" /\ ends # {}
        THEN LET k == CHOOSE e \in ends : \A m \in ends : e <= m
             IN  IF k + 1 < Len(dataURL) THEN SubSeq(dataURL, k + 2, Len(dataURL)) ELSE dataURL
        ELSE dataURL

\* the image and mask entries of the body: those the widget's script sends
\* (originalBase64 and the canvas's toDataURL, through stripBase64Prefix),
\* and those of another client, which sends the image as a data URL
TestPayloads ==
    {[from |-> "widget", image |-> stripBase64Prefix(WITH_PREFIX), mask |-> stripBase64Prefix(WITH_PREFIX)],
     [from |-> "client", image |-> WITH_PREFIX, mask |-> WITHOUT_PREFIX]}

\* the test if it read `any(...)`
ActionInpaintingAny(b) == \E k \in {"image", "mask", "prompt"} : k \in b.keys
\* `if all(k in body for k in ("image", "mask", "prompt")):`
ActionInpainting(b) == \A k \in {"image", "mask", "prompt"} : k \in b.keys

\* the payload of the inpainting request of Action.action
ActionRequestStripped(b, v) ==
    [url |-> FLUX_FILL,
     payload |-> [image |-> _process_base64_image(b.image), mask |-> _process_base64_image(b.mask),
                  prompt |-> b.prompt, steps |-> v.STEPS,
                  guidance |-> v.GUIDANCE, output_format |-> v.OUTPUT_FORMAT,
                  safety_tolerance |-> v.SAFETY_TOLERANCE]]
ActionRequest(b, v) ==
    [url |-> FLUX_FILL,
     payload |-> [image |-> b.image, mask |-> b.mask, prompt |-> b.prompt, steps |-> v.STEPS,
                  guidance |-> v.GUIDANCE, output_format |-> v.OUTPUT_FORMAT,
                  safety_tolerance |-> v.SAFETY_TOLERANCE]]

\* `status_ not in ["Pending", "Processing"]`: the statuses Action.action reports
ActionReports(status) == status \notin {"Pending", "Processing"}

\* the statuses at which the loop of Action.action returns an error
ActionFailure(status) ==
    status \in {"Error", "Content Moderated", "Request Moderated", "Task not found"}

\* Action.save_url_image on the download answer a
ActionSaveUrlImage(a) ==
    LET image_id == FreshId
        mime_type == IF a.type = NO_HEADER THEN EMPTY_TYPE ELSE a.type
        ext == IF guess_extension(mime_type) # "none" THEN guess_extension(mime_type) ELSE ".jpg"
    IN  IF a.kind = "transport"
        THEN [ok |-> FALSE, files |-> files, path |-> NoPath]
        ELSE IF a.kind = "broken"
        THEN [ok |-> FALSE, files |-> Written(image_id, ext, FALSE), path |-> NoPath]
        ELSE [ok |-> TRUE, files |-> Written(image_id, ext, TRUE), path |-> CachePath(image_id, ext)]

MessageEvent(content) == [type |-> "message", content |-> content]
EditMessageEvent(id, content) == [type |-> "edit_message", message_id |-> id, content |-> content]
\* the return value {"status": "ok", ...} of Action.action
Ok(marker) == [kind |-> "ok", ok |-> TRUE, named |-> <<>>, marker |-> marker]

\* Action.action up to the first request or the first suspension, for a body
\* whose keys are of keysets and whose messages are of histories
ActionStartWith(keysets, histories) ==
    /\ pc = "idle" /\ IsAction
    /\ \E em \in BOOLEAN, keys \in keysets, messages \in histories, sent \in TestPayloads :
          LET b == [kind |-> "action", keys |-> keys, messages |-> messages, from |-> sent.from,
                    image |-> sent.image, mask |-> sent.mask, prompt |-> "prompt"]
              first == Progress(<<"request is processed">>)
              image_path == find_generated_image_path(messages)
          IN  /\ emitter' = em
              /\ body' = b
              /\ IF ActionInpainting(b)
                 THEN /\ pc' = "submit"
                      /\ Sends(EmitIf(em, <<first, Progress(<<"sending the task to FLUX">>)>>))
                      /\ UNCHANGED result
                 ELSE LET second == Progress(<<"preparing the HTML">>)
                      IN  IF image_path = <<>>
                          THEN Finish(Error("not_found", <<"no generated image in the messages">>),
                                      EmitIf(em, <<first, second,
                                                   ErrorEvent(<<"no generated image in the messages">>)>>))
                          ELSE IF ~CachedFileExists(image_path)
                          THEN Finish(Error("file_missing", <<"file not found">>),
                                      EmitIf(em, <<first, second, ErrorEvent(<<"file not found">>)>>))
                          ELSE /\ pc' = "widget"
                               /\ Sends(EmitIf(em, <<first, second>>))
                               /\ UNCHANGED result
    /\ lastConfig' = NoConfig
    /\ UNCHANGED <<variant, calls, valves, elapsed, last_status, attempt, image_url, reqs, hist, files>>

ActionStart == ActionStartWith(TestKeys, TestHistories)

\* the widget path of Action.action after `await asyncio.sleep(1)`
ActionWidget ==
    /\ pc = "widget" /\ IsAction
    /\ LET existing_artifact_msg == find_existing_artifact_message(body.messages)
       IN  Finish(Ok(NoPath),
                  IF ~existing_artifact_msg.found
                  THEN Emit(<<MessageEvent(<<HtmlFence, Text>>),
                              status_object(<<"HTML artifact created">>, "complete", TRUE)>>)
                  ELSE IF existing_artifact_msg.id # ""
                  THEN Emit(<<EditMessageEvent(existing_artifact_msg.id, <<HtmlFence, Text>>),
                              status_object(<<"HTML artifact updated">>, "complete", TRUE)>>)
                  ELSE Emit(<<status_object(<<"artifact exists, no id">>, "complete", TRUE)>>))
    /\ UNCHANGED <<cfgVars, calls, emitter, body, elapsed, last_status, attempt, image_url, reqs, hist, files>>

\* the inpainting request of Action.action.  flux_response.json() is outside
\* the try block: a body that is no JSON raises out of the action.
ActionSubmit ==
    /\ pc = "submit" /\ IsAction
    /\ reqs' = Append(reqs, Request("post", ActionRequest(body, valves)))
    /\ \E answer \in SubmitAnswers :
          CASE answer = "ok" ->
                  /\ pc' = "loop"
                  /\ Sends(<<>>)
                  /\ hist' = Accepted
                  /\ UNCHANGED result
            [] answer = "transport" ->
                  /\ Finish(Error("request_error", <<"Request error">>),
                            Emit(<<ErrorEvent(<<"Request error">>)>>))
                  /\ hist' = Refused(answer)
            [] answer \in {"no_id", "empty_id"} ->
                  /\ Finish(Error("no_id", <<"no task id">>), Emit(<<ErrorEvent(<<"no task id">>)>>))
                  /\ hist' = Refused(answer)
            [] answer = "unparsable" ->
                  /\ Finish(Raised(<<"JSONDecodeError">>), <<>>)
                  /\ hist' = Refused(answer)
    /\ elapsed' = 0
    /\ attempt' = 0
    /\ image_url' = "none"
    /\ UNCHANGED <<cfgVars, calls, emitter, body, last_status, files>>

\* `for attempt in range(max_attempts):` of Action.action has an iteration left
ActionAttemptsLeftOneMore(attempts, max_attempts) == attempts <= max_attempts
ActionAttemptsLeft(attempts, max_attempts) == attempts < max_attempts

\* `for attempt in range(max_attempts)` is exhausted: `if not image_url:`
ActionExhausted ==
    /\ pc = "loop" /\ IsAction
    /\ ~ActionAttemptsLeft(attempt, valves.MAX_POLL_ATTEMPTS)
    /\ Finish(Error("no_result_in_time", <<"no result in the allotted time">>),
              Emit(<<ErrorEvent(<<"no result in the allotted time">>)>>))
    /\ UNCHANGED <<cfgVars, calls, emitter, body, elapsed, last_status, attempt, image_url, reqs, hist, files>>

\* one iteration of the loop of Action.action: time.sleep(poll_interval),
\* then the status request, which takes d seconds.  check_resp.json() is
\* outside the try block.
ActionPoll ==
    /\ pc = "loop" /\ IsAction
    /\ ActionAttemptsLeft(attempt, valves.MAX_POLL_ATTEMPTS)
    /\ reqs' = Append(reqs, Request("get_result", <<"get_result">>))
    /\ \E a \in StatusAnswers, d \in ReqDurs :
          /\ elapsed' = elapsed + valves.POLL_INTERVAL + d
          /\ CASE a.kind = "transport" ->
                    /\ Finish(Error("request_error", <<"Request error">>),
                              Emit(<<ErrorEvent(<<"Request error">>)>>))
                    /\ UNCHANGED <<attempt, image_url>>
               [] a.kind = "unparsable" ->
                    /\ Finish(Raised(<<"JSONDecodeError">>), <<>>)
                    /\ UNCHANGED <<attempt, image_url>>
               [] a.kind = "status" ->
                    LET status_ == a.status
                        update == IF ActionReports(status_)
                                  THEN Emit(<<Progress(<<"Flux status: ", status_>>)>>) ELSE <<>>
                    IN  IF status_ = "Ready"
                        THEN IF a.sample
                             THEN /\ pc' = "download"
                                  /\ image_url' = "url"
                                  /\ Sends(update \o Emit(<<Progress(<<"loading the final image">>)>>))
                                  /\ UNCHANGED <<result, attempt>>
                             ELSE /\ Finish(Error("no_result_in_time", <<"no result in the allotted time">>),
                                            update \o Emit(<<ErrorEvent(<<"no result in the allotted time">>)>>))
                                  /\ UNCHANGED <<attempt, image_url>>
                        ELSE IF ActionFailure(status_)
                        THEN /\ Finish(Error("status_error", <<status_>>),
                                       update \o Emit(<<ErrorEvent(<<"Flux returned status: ", status_>>)>>))
                             /\ UNCHANGED <<attempt, image_url>>
                        ELSE /\ attempt' = attempt + 1
                             /\ Sends(update)
                             /\ UNCHANGED <<pc, result, image_url>>
          /\ hist' \in AfterAwait(Heard(a, elapsed + valves.POLL_INTERVAL + d), emitted')
    /\ UNCHANGED <<cfgVars, calls, emitter, body, last_status, files>>

\* save_url_image and the return of Action.action
ActionDownload ==
    /\ pc = "download" /\ IsAction
    /\ reqs' = Append(reqs, Request("download", <<"sample">>))
    /\ \E a \in DownloadAnswers :
          LET saved == ActionSaveUrlImage(a)
          IN  /\ files' = saved.files
              /\ IF saved.ok
                 THEN Finish(Ok(IF emitter THEN saved.path ELSE NoPath),
                             Emit(<<MessageEvent(Marker(saved.path)),
                                    status_object(<<"inpainting result received">>, "complete", TRUE)>>))
                 ELSE Finish(Error("download_error", <<"download error">>),
                             Emit(<<ErrorEvent(<<"download error">>)>>))
              /\ hist' = Downloaded(a, saved.ok)
    /\ UNCHANGED <<cfgVars, calls, emitter, body, elapsed, last_status, attempt, image_url>>

ActionNext ==
    ActionStart \/ ActionWidget \/ ActionSubmit \/ ActionExhausted \/ ActionPoll \/ ActionDownload

PipeNext == PipeStart \/ PipeTranslate \/ PipeSubmit \/ PipeTimeout \/ PipePoll \/ PipeSleep \/ PipeDownload

Next == Configure \/ PipeNext \/ PipelineNext \/ ActionNext
Spec == Init /\ [][Next]_vars

\* The settings of the polling specification: every timeout, poll interval
\* and attempt limit, with the settings the polling loop never reads fixed
\* to values that let the invocation reach the loop.
PollConfigs(var) ==
    CASE var = "gen" ->
            {v \in GenValves({Choice(FLUX_DEV, "1440x1440")}, {2}, {"jpeg"}) :
                v.BFL_API_KEY /\ v.OPENAI_API_KEY /\ ~v.raw}
      [] var = "flux" ->
            {v \in FluxValves({FLUX_DEV}, {2}, {"jpeg"}) :
                v.BFL_API_KEY /\ v.OPENAI_API_KEY /\ ~v.raw}
      [] var = "action" -> ActionValves
      [] var = "pipeline" ->
            {v \in PipelineValves :
                v.BFL_API_KEY /\ v.dimension = Choice(FLUX_DEV, "1440x1440")}

\* The polling workflow under fair scheduling: a handler that can take a
\* step takes it (the event loop resumes a coroutine whose await is over, and
\* a blocking call returns).
PollInit == InitWith([var \in Variants |-> PollConfigs(var)]) /\ calls = NoCalls
PollNext == ConfigureFrom([var \in Variants |-> PollConfigs(var)]) \/ PipeNext \/ PipelineNext \/ ActionNext
LiveSpec == PollInit /\ [][PollNext]_vars /\ WF_vars(PollNext)

\* The validation of the settings alone: the host constructs Valves from
\* every combination of the fields.
ValidateInit == InitWith([var \in Variants |-> AllConfigs(var)]) /\ calls = NoCalls
ValidateNext == ConfigureFrom([var \in Variants |-> AllConfigs(var)])
ValidateSpec == ValidateInit /\ [][ValidateNext]_vars

(***************************************************************************)
(* The lookup of the generated image alone: find_generated_image_path is    *)
(* applied to every chat history of at most MaxMessages messages.           *)
(***************************************************************************)
NEW_IMAGE == CachePath(1, ".jpg")

\* the contents of the messages: plain text, a marker, a marker followed by
\* text in parentheses, "![BFL Image]()", a marker that is not closed, and
\* two markers
LookupContents ==
    {<<Text>>, Marker(OLD_IMAGE), Marker(NEW_IMAGE),
     Marker(OLD_IMAGE) \o <<Text, MarkerClose>>,
     <<MarkerOpen, MarkerClose>>,
     <<Text, MarkerOpen, PathToken(OLD_IMAGE)>>,
     Marker(NEW_IMAGE) \o Marker(OLD_IMAGE)}

LookupMessages == {Message(role, content, "m") : role \in {"user", "assistant"}, content \in LookupContents}

LookupHistories == UNION {[1..n -> LookupMessages] : n \in 0..MaxMessages}

LookupInit ==
    /\ InitWith([var \in Variants |-> AllConfigs(var)])
    /\ variant = "action"
    /\ files = {}
    /\ calls = NoCalls

\* self.find_generated_image_path(messages)
Lookup ==
    /\ pc = "idle" /\ IsAction
    /\ \E messages \in LookupHistories :
          /\ body' = [kind |-> "lookup", messages |-> messages]
          /\ result' = [kind |-> "lookup", path |-> find_generated_image_path(messages)]
    /\ pc' = "done"
    /\ UNCHANGED <<cfgVars, calls, emitter, elapsed, last_status, attempt, image_url, reqs, hist,
                   emitted, events, files>>

LookupSpec == LookupInit /\ [][Lookup]_vars

(***************************************************************************)
(* The widget path of Action.action of flux-action.py, for every chat       *)
(* history of at most MaxMessages messages: assistant messages with an      *)
(* image marker, with an html or a json code block or with both, with or    *)
(* without an id, and a user message with an html code block.               *)
(***************************************************************************)
WidgetHistories ==
    LET messages == {Message("assistant", Marker(OLD_IMAGE), "a0"),
                     Message("assistant", <<HtmlFence, Text>>, ""),
                     Message("assistant", Marker(OLD_IMAGE) \o <<HtmlFence, Text>>, "a1"),
                     Message("assistant", <<HtmlFence, Text>>, "a2"),
                     Message("assistant", <<Text, JsonFence>>, ""),
                     Message("assistant", <<Text, JsonFence>>, "a3"),
                     Message("user", <<HtmlFence, Text>>, "u1")}
    IN  UNION {[1..n -> messages] : n \in 0..MaxMessages}

WidgetInit ==
    /\ InitWith([var \in Variants |-> AllConfigs(var)])
    /\ variant = "action"
    /\ calls = NoCalls

WidgetNext == ActionStartWith({{}, {"prompt"}}, WidgetHistories) \/ ActionWidget

WidgetSpec == WidgetInit /\ [][WidgetNext]_vars

(***************************************************************************)
(* Two invocations of Pipe.pipe of flux-gen.py interleaved on one instance, *)
(* from the submission on.  The event loop switches between them at the     *)
(* await points; a blocking request of one delays the other as well, so     *)
(* both read one clock (elapsed).  valves, the cache directory and the      *)
(* service are shared; every other variable of pipe is local.               *)
(***************************************************************************)
Invocations == {1, 2}

\* the local variables of an invocation that is about to submit its job
NewCall ==
    [pc |-> "submit", bfl_task_id |-> 0, start_time |-> 0, last_status |-> "", wake |-> 0,
     sent |-> <<>>, result |-> NoResult]

\* the statuses the service answers to the two invocations
PairStatuses == {"Pending", "Processing", "Ready", "Error"}

\* the answers to the download requests of the two invocations
PairDownloadAnswers ==
    {a \in DownloadAnswers : a.kind # "transport" /\ a.type \in {IMAGE_PNG, TEXT_HTML}}

\* the settings of the two invocations: one timeout and one poll interval
PairConfigs == {v \in PollConfigs("gen") : v.timeout = 1 /\ v.poll_interval = 1}

\* the shortest and the longest time a status request takes
PairReqDurs == {0, MaxReqDur}

PairInit ==
    /\ InitWith([var \in Variants |-> PairConfigs])
    /\ variant = "gen"
    /\ calls = [i \in Invocations |-> NewCall]

\* what leaves the variables of the single invocation alone
PairFrame == UNCHANGED <<cfgVars, pc, emitter, body, last_status, attempt, image_url, hist,
                         emitted, events, result>>

IsPost(r) == r.kind = "post"

\* the identifier of the job submitted last through the instance
LatestJob(i) ==
    LET posts == SelectSeq(reqs, IsPost) IN posts[Len(posts)].what.id

\* `result = self.get_result(bfl_task_id)`: the identifier the invocation
\* asks for is its local variable
PolledId(i) == calls[i].bfl_task_id

\* `bfl_task_id = self.send_image_generation_request(translated_prompt)`, the
\* "Waiting for generation to start..." event and `start_time = time.time()`.
\* The service gives every job an identifier of its own.
PairSubmit(i) ==
    /\ calls[i].pc = "submit"
    /\ LET id == Len(reqs) + 1
       IN  /\ reqs' = Append(reqs, Request("post", [by |-> i, id |-> id]))
           /\ calls' = [calls EXCEPT ![i].pc = "loop",
                                     ![i].bfl_task_id = id,
                                     ![i].start_time = elapsed,
                                     ![i].last_status = "",
                                     ![i].sent = <<Progress(<<"Waiting for generation to start...">>)>>]
    /\ PairFrame
    /\ UNCHANGED <<elapsed, files>>

\* the head of the polling loop when the time is up
PairTimeout(i) ==
    /\ calls[i].pc = "loop"
    /\ PipeTimedOut(elapsed - calls[i].start_time, valves.timeout)
    /\ calls' = [calls EXCEPT ![i].pc = "done",
                              ![i].result = Error("timeout", <<"Timeout">>),
                              ![i].sent = @ \o <<ErrorEvent(<<"Timeout">>)>>]
    /\ PairFrame
    /\ UNCHANGED <<elapsed, reqs, files>>

\* one iteration of the polling loop up to the sleep: the blocking status
\* request, which takes d seconds, the status update and the break
PairPoll(i) ==
    /\ calls[i].pc = "loop"
    /\ ~PipeTimedOut(elapsed - calls[i].start_time, valves.timeout)
    /\ \E status \in PairStatuses, d \in PairReqDurs :
          LET update == IF PipeStatusChanged(status, calls[i].last_status)
                        THEN <<PipeStatusUpdate(status)>> ELSE <<>>
              heard == [calls[i] EXCEPT !.last_status = status, !.sent = @ \o update]
          IN  /\ reqs' = Append(reqs, Request("get_result",
                                              [by |-> i, id |-> PolledId(i), status |-> status]))
              /\ elapsed' = elapsed + d
              /\ calls' = [calls EXCEPT ![i] =
                    IF ~PipeTerminal(status)
                    THEN [heard EXCEPT !.pc = "sleep",
                                       !.wake = elapsed + d + valves.poll_interval]
                    ELSE IF status # "Ready"
                    THEN [heard EXCEPT !.pc = "done",
                                       !.result = Error("unknown_error", <<status>>),
                                       !.sent = @ \o <<ErrorEvent(<<"Unknown error: ", status>>)>>]
                    ELSE [heard EXCEPT !.pc = "download",
                                       !.sent = @ \o <<Progress(<<"Saving result...">>)>>]]
    /\ PairFrame
    /\ UNCHANGED files

\* `await asyncio.sleep(self.valves.poll_interval)` is over: the event loop
\* resumes the invocation, not before its delay has passed
PairWake(i) ==
    /\ calls[i].pc = "sleep"
    /\ elapsed' = IF elapsed < calls[i].wake THEN calls[i].wake ELSE elapsed
    /\ calls' = [calls EXCEPT ![i].pc = "loop"]
    /\ PairFrame
    /\ UNCHANGED <<reqs, files>>

\* save_url_image and the return of pipe
PairDownload(i) ==
    /\ calls[i].pc = "download"
    /\ \E a \in PairDownloadAnswers :
          LET saved == PipeSaveUrlImage(a)
          IN  /\ files' = saved.files
              /\ reqs' = Append(reqs, Request("download",
                                              [by |-> i, wrote |-> saved.files \ files]))
              /\ calls' = [calls EXCEPT
                    ![i].pc = "done",
                    ![i].result = IF saved.ok THEN Success(saved.path, <<>>)
                                  ELSE Error("unknown_error", <<"Error saving image">>),
                    ![i].sent = @ \o IF saved.ok
                                     THEN <<status_object(<<"Image generated">>, "complete", TRUE)>>
                                     ELSE <<ErrorEvent(<<"Unknown error: ", "Error saving image">>)>>]
    /\ PairFrame
    /\ UNCHANGED elapsed

PairNext ==
    \E i \in Invocations :
        PairSubmit(i) \/ PairTimeout(i) \/ PairPoll(i) \/ PairWake(i) \/ PairDownload(i)
PairSpec == PairInit /\ [][PairNext]_vars

(***************************************************************************)
(* The claims.                                                              *)
(***************************************************************************)
GetResults == {i \in 1..Len(reqs) : reqs[i].kind = "get_result"}
Posts == {i \in 1..Len(reqs) : reqs[i].kind = "post"}
Downloads == {i \in 1..Len(reqs) : reqs[i].kind = "download"}

\* C1: in every variant, no status query is issued after a status response
\* whose status is Ready, Error, Content Moderated, Request Moderated or
\* Task not found.
C1_TerminalStatusEndsPolling == \A i \in GetResults : ~reqs[i].afterTerminal

\* the time bound the variant is configured with
TimeBound ==
    IF IsAction THEN valves.MAX_POLL_ATTEMPTS * valves.POLL_INTERVAL ELSE valves.timeout

\* C2: when the Ready response arrives after the elapsed time has exceeded
\* the configured timeout, the invocation does not go on to the download and
\* ends with a Timeout failure: no image is returned after the bound.
C2_NoImageAfterTimeout ==
    hist.readyAt > TimeBound =>
        /\ pc # "download"
        /\ Downloads = {}
        /\ pc = "done" => result.kind \in {"timeout", "no_result_in_time"}

\* every status response so far held a status that is not terminal, and no
\* request failed
OnlyNonTerminal == hist.submitted /\ hist.terminal = "" /\ hist.failure = ""

ErrorEvents == {i \in 1..Len(emitted) : emitted[i].type = "status" /\ emitted[i].status = "error"}

\* C3: when the service answers every status query with a non-terminal
\* status, the polling loop terminates (the poll interval is positive), and
\* the invocation returns one Timeout failure.
C3_PollingTerminatesWithTimeout ==
    /\ (pc \in {"loop", "sleep"}) ~> (pc = "done")
    /\ [](pc = "done" /\ OnlyNonTerminal =>
            /\ result.kind \in {"timeout", "no_result_in_time"}
            /\ ~result.ok
            /\ emitter => Cardinality(ErrorEvents) = 1)

C3_Witness ==
    /\ pc = "done" /\ OnlyNonTerminal /\ IsPipe
    /\ hist.polls >= 2
    /\ result.kind = "timeout"

\* C4: at most one generation request is posted per invocation, and after a
\* failure (a failed request, a failure status) neither a submission nor the
\* failed kind of request is issued again.
C4_SubmittedOnceNoRetry ==
    /\ Cardinality(Posts) <= 1
    /\ \A i \in 1..Len(reqs) :
          reqs[i].afterFailure # "" => reqs[i].kind \notin {"post", reqs[i].afterFailure}

\* the status updates of the polling loops among the events evs
StatusUpdates(evs) ==
    {i \in 1..Len(evs) :
        /\ evs[i].type = "status"
        /\ \/ evs[i].description \in {status_messages(st) : st \in ServiceStatuses}
           \/ Head(evs[i].description) = "Flux status: "}

\* a step in which a status response arrives
StatusArrives == hist'.polls = hist.polls + 1

\* C5 as stated: in every variant with an emitter, a status update is sent
\* exactly when the status of a response differs from the status of the
\* previous response (the first one is compared with the empty status).
C5_UpdateExactlyOnChange ==
    [][StatusArrives /\ emitter =>
          Cardinality(StatusUpdates(emitted')) = IF hist'.prev # hist.prev THEN 1 ELSE 0]_vars

\* C5, amended: Pipe.pipe (flux-gen.py, flux.py) sends a status update
\* exactly when the status differs from the status of the previous response;
\* Action.action sends one for exactly the responses whose status is neither
\* Pending nor Processing, changed or not.
C5_UpdatePerVariant ==
    [][StatusArrives /\ emitter =>
          Cardinality(StatusUpdates(emitted')) =
              IF IsPipe THEN (IF hist'.prev # hist.prev THEN 1 ELSE 0)
              ELSE (IF hist'.prev \notin {"Pending", "Processing"} THEN 1 ELSE 0)]_vars

\* Pipe.pipe heard the same status twice and the second response sent nothing
C5_Witness ==
    /\ IsPipe /\ pc = "sleep"
    /\ hist.polls >= 2
    /\ hist.prev = "Processing"
    /\ emitted = <<>>

\* the endpoint the settings select
SelectedEndpoint(var, v) ==
    IF var = "flux" THEN v.api_endpoint
    ELSE IF v.dimension \in DIMENSION_ENUM_VALUES THEN DIMENSION_OPTIONS(v.dimension).endpoint
    ELSE OTHER_ENDPOINT

\* raw is set and the selected endpoint is not flux-pro-1.1-ultra
RawNonUltra(var, v) ==
    /\ var \in {"gen", "flux"}
    /\ v.raw
    /\ SelectedEndpoint(var, v) # FLUX_ULTRA

\* C6: settings with raw and an endpoint other than flux-pro-1.1-ultra are
\* rejected, and no request (translation, submission, poll, download) is
\* issued while raw is set and the endpoint is not flux-pro-1.1-ultra.
C6_NoRequestWithRawNonUltra ==
    /\ lastConfig.tried /\ RawNonUltra(variant, lastConfig.data) =>
          lastConfig.rejected /\ valves # lastConfig.data
    /\ reqs # <<>> => ~RawNonUltra(variant, valves)
    /\ \A i \in Posts :
          "raw" \in DOMAIN reqs[i].what.payload /\ reqs[i].what.payload.raw =>
              reqs[i].what.url = FLUX_ULTRA

\* settings with raw and a non-ultra endpoint were refused, and the
\* invocation that followed ran with raw on the ultra endpoint
C6_Witness ==
    /\ hist.refused /\ IsPipe
    /\ valves.raw
    /\ Posts # {}
    /\ GetResults # {}

\* C7: the validation rejects exactly the settings with raw and an endpoint
\* other than flux-pro-1.1-ultra, whatever the other fields are.
C7_RejectsExactlyRawNonUltra ==
    lastConfig.tried => (lastConfig.rejected <=> RawNonUltra(variant, lastConfig.data))

\* settings with raw on the ultra endpoint and the png format were accepted
C7_Witness ==
    /\ lastConfig.tried /\ ~lastConfig.rejected
    /\ variant = "gen"
    /\ lastConfig.data.raw /\ lastConfig.data.output_format = "png"
    /\ valves = lastConfig.data

\* C8: every invocation returns an error result for every kind of failure,
\* and no exception leaves the entry point.
C8_EveryFailureReturnsError ==
    pc = "done" =>
        /\ result.kind # "raised"
        /\ hist.failure # "" => ~result.ok

\* the text of the result names the status st
Names(st) == \E i \in 1..Len(result.named) : result.named[i] = st

\* C9: after a status response of Error, Content Moderated, Request Moderated
\* or Task not found the download is never requested, and the invocation
\* returns an error that names the status and holds no image marker.
C9_FailureStatusIsReported ==
    hist.terminal \in FailureStatuses =>
        /\ pc # "download"
        /\ Downloads = {}
        /\ pc = "done" => ~result.ok /\ Names(hist.terminal) /\ result.marker = NoPath

\* the download response arrived, and its content type does not indicate an image
NotAnImage == hist.download # <<"(no response)">> /\ ~StartsWith(hist.download, <<"image">>)

\* C10: in every variant of the materializer, a download response whose
\* content type does not indicate an image makes the materializer fail, and
\* no file is written to the cache directory.
C10_NonImageIsRefused ==
    NotAnImage =>
        /\ \A f \in files : f.name = 0
        /\ pc = "done" => ~result.ok

\* the files the invocation has written to the cache directory
NewFiles == {f \in files : f.name # 0}

\* the media type of a content type: the type without its parameters
MediaType(type) == IF Len(type) > 2 THEN SubSeq(type, 1, 2) ELSE type

\* the default extension of the variant's materializer
DefaultExtension ==
    CASE IsPipe -> ".png"
      [] IsPipeline -> ".jpeg"
      [] IsAction -> ".jpg"

\* the extension that corresponds to the declared content type, the default
\* one when the type has none
ExpectedExtension(type) ==
    IF guess_extension(MediaType(type)) # "none" THEN guess_extension(MediaType(type))
    ELSE DefaultExtension

\* C11: when the materializer returns after a Ready status with a sample
\* URL, it has written one file, whose extension is the one of the declared
\* content type (the variant's default only when the type has none), and the
\* reference returned is the path of that file.
C11_ExtensionMatchesContentType ==
    pc = "done" /\ result.ok /\ Downloads # {} =>
        /\ Cardinality(NewFiles) = 1
        /\ \A f \in NewFiles :
              /\ f.complete
              /\ f.ext = ExpectedExtension(hist.download)
              /\ result.marker # NoPath => result.marker = CachePath(f.name, f.ext)

\* the content holds, at position i, "![BFL Image](" followed by n >= 1 tokens
\* other than ")" and then ")"
MarkerAt(content, i, n) ==
    /\ n >= 1 /\ i + n + 1 <= Len(content)
    /\ content[i] = MarkerOpen
    /\ \A k \in 1..n : content[i + k] # MarkerClose
    /\ content[i + n + 1] = MarkerClose

HoldsMarker(content) == \E i, n \in 1..Len(content) : MarkerAt(content, i, n)

AssistantMessages(messages) == {i \in 1..Len(messages) : messages[i].role = "assistant"}

\* C12: for a history whose only assistant message holds the marker
\* ![BFL Image](path), find_generated_image_path returns exactly path (of the
\* first marker of the message); for a history in which no assistant message
\* holds the marker it returns None.
C12_LookupReturnsMarkerPath ==
    pc = "done" /\ body.kind = "lookup" =>
        LET messages == body.messages
            assistants == AssistantMessages(messages)
        IN  /\ \A a \in assistants :
                  assistants = {a} =>
                      \A i, n \in 1..Len(messages[a].content) :
                          /\ MarkerAt(messages[a].content, i, n)
                          /\ \A j \in 1..(i - 1) : ~\E m \in 1..Len(messages[a].content) :
                                                         MarkerAt(messages[a].content, j, m)
                          => result.path = SubSeq(messages[a].content, i + 1, i + n)
            /\ (\A a \in assistants : ~HoldsMarker(messages[a].content)) => result.path = <<>>

\* the only assistant message holds a marker followed by text in
\* parentheses, a user message with another marker follows it, and the
\* lookup returned the path of the assistant's marker
C12_Witness ==
    /\ pc = "done" /\ body.kind = "lookup"
    /\ body.messages = <<Message("assistant", Marker(OLD_IMAGE) \o <<Text, MarkerClose>>, "m"),
                         Message("user", Marker(NEW_IMAGE), "m")>>
    /\ result.path = <<PathToken(OLD_IMAGE)>>

\* the content that a successful invocation returned (Pipe.pipe,
\* Pipeline.pipe) or sent in its message event (Action.action)
GeneratedContents ==
    IF IsAction
    THEN {emitted[i].content : i \in {k \in 1..Len(emitted) : emitted[k].type = "message"}}
    ELSE {result.content}

\* the histories that end with the generated content as an assistant message
HistoriesWith(content) ==
    {h \o <<Message("assistant", content, "new")>> :
        h \in {<<>>} \cup (IF IsAction THEN {body.messages} ELSE {})}

\* C13: when the content of a successful generation or inpainting is placed
\* in the history as an assistant message, find_generated_image_path returns
\* exactly the path that the materializer returned.
C13_LookupFindsGeneratedPath ==
    pc = "done" /\ result.ok /\ result.marker # NoPath =>
        \A content \in GeneratedContents : \A messages \in HistoriesWith(content) :
            find_generated_image_path(messages) = <<PathToken(result.marker)>>

\* the base64 body of a payload: what follows "data:...;base64," when the
\* payload starts with such a prefix, the payload itself otherwise
Base64Body(payload) ==
    IF payload # <<>> /\ Head(payload) = "data:"
    THEN LET k == CHOOSE i \in 1..Len(payload) : payload[i] = ","
         IN  SubSeq(payload, k + 1, Len(payload))
    ELSE payload

\* the inpainting requests posted so far
FillPosts == {i \in Posts : reqs[i].what.url = FLUX_FILL}

\* the image and mask that the invocation received
ReceivedImage == IF IsPipeline THEN body.inpainting_data.originalBase64 ELSE body.image
ReceivedMask == IF IsPipeline THEN body.inpainting_data.maskBase64 ELSE body.mask

C15_NoPollingWithoutJobId ==
    hist.post \in {"transport", "no_id", "empty_id"} =>
        /\ GetResults = {} /\ Downloads = {}
        /\ pc = "done" /\ ~result.ok /\ result.kind # "raised"

\* the submissions of a generation job (not of an inpainting job)
GenerationPosts == {i \in Posts : reqs[i].what.url # FLUX_FILL}

\* C16: the payload of a generation request holds width and height, and
\* neither aspect_ratio nor raw, when the selected endpoint is flux-dev or
\* flux-pro-1.1; it holds aspect_ratio, and neither width nor height, when the
\* endpoint is flux-pro-1.1-ultra; and the request goes to the endpoint of the
\* selected choice (the base URL is the same for every request).
C16_PayloadMatchesEndpoint ==
    \A i \in GenerationPosts :
        LET url == reqs[i].what.url
            keys == DOMAIN reqs[i].what.payload
        IN  /\ url = SelectedEndpoint(variant, valves)
            /\ url \in {FLUX_DEV, FLUX_PRO} =>
                  {"width", "height"} \subseteq keys /\ keys \cap {"aspect_ratio", "raw"} = {}
            /\ url = FLUX_ULTRA =>
                  "aspect_ratio" \in keys /\ keys \cap {"width", "height"} = {}

\* C17: in the async handlers (Pipe.pipe, Action.action) the coroutine is
\* suspended between any two consecutive status requests while the job is
\* Pending or Processing, so that another task of the event loop runs
\* between them and is not starved for the polling period.
C17_SuspensionBetweenPolls == IsPipe \/ IsAction => ~hist.starved

\* the statuses the service answered for a job, in order
RECURSIVE AnswersFor(_, _)
AnswersFor(job, k) ==
    IF k = 0 THEN <<>>
    ELSE IF reqs[k].kind = "get_result" /\ reqs[k].what.id = job
    THEN Append(AnswersFor(job, k - 1), reqs[k].what.status)
    ELSE AnswersFor(job, k - 1)

\* the status updates that a sequence of status answers brings about
RECURSIVE Replay(_, _)
Replay(statuses, last) ==
    IF statuses = <<>> THEN <<>>
    ELSE (IF PipeStatusChanged(Head(statuses), last)
          THEN <<PipeStatusUpdate(Head(statuses))>> ELSE <<>>)
            \o Replay(Tail(statuses), Head(statuses))

IsStatusUpdate(e) == \E status \in PairStatuses : e = PipeStatusUpdate(status)

\* the files the download of an invocation wrote
WrittenBy(i) ==
    UNION {reqs[k].what.wrote : k \in {d \in Downloads : reqs[d].what.by = i}}

PostedVerbatim ==
    IsAction =>
        \A i \in Posts :
            /\ reqs[i].what.payload.image = body.image
            /\ reqs[i].what.payload.mask = body.mask
            /\ reqs[i].what.payload.prompt = body.prompt

\* a step of the running action leaves the image, mask and prompt of the
\* body as they were received (body.setdefault adds other entries only)
BodyKept ==
    IsAction /\ pc # "idle" =>
        /\ body'.keys = body.keys
        /\ body'.image = body.image /\ body'.mask = body.mask /\ body'.prompt = body.prompt

WidgetPath == IsAction /\ body.kind = "action" /\ ~ActionInpainting(body)

\* no assistant message of the body holds an image marker
NoMarkedMessage ==
    \A a \in AssistantMessages(body.messages) : ~HoldsMarker(body.messages[a].content)

\* the cache directory holds no file of the name that the marker gives
MarkedFileMissing ==
    /\ ~NoMarkedMessage
    /\ ~\E f \in files :
          <<PathToken(CachePath(f.name, f.ext))>> = find_generated_image_path(body.messages)

\* C20: on the widget path of Action.action, when no assistant message holds
\* an image marker or the file the marker names is not in the cache
\* directory, the action returns an error result, the emitter (when there is
\* one) receives an error status event last, and it receives no message and
\* no edit_message event.
C20_WidgetPathFailsWithoutImage ==
    WidgetPath /\ pc # "idle" /\ (NoMarkedMessage \/ MarkedFileMissing) =>
        /\ pc = "done" /\ ~result.ok /\ result.kind # "raised"
        /\ emitter =>
              /\ emitted # <<>>
              /\ emitted[Len(emitted)].type = "status"
              /\ emitted[Len(emitted)].status = "error"
              /\ emitted[Len(emitted)].done
        /\ \A k \in 1..Len(emitted) : emitted[k].type \notin {"message", "edit_message"}

\* an assistant message names an image that the cache directory does not
\* hold, and the action with an emitter returned the error
C20_Witness ==
    /\ WidgetPath /\ pc = "done" /\ emitter
    /\ MarkedFileMissing
    /\ result.kind = "file_missing"

\* C21: Action.action issues at most MAX_POLL_ATTEMPTS status queries, each
\* after one sleep of POLL_INTERVAL (the time passed is at least one
\* interval per query, and at most one interval and one longest request per
\* query); when no query returned a terminal status or failed, the action
\* returns the "no result in the allotted time" error and downloads nothing;
\* with MAX_POLL_ATTEMPTS = 0 it issues no status query.
C21_ActionPollsAtMostMaxAttempts ==
    IsAction /\ body.kind = "action" =>
        LET queries == Cardinality(GetResults)
        IN  /\ queries <= valves.MAX_POLL_ATTEMPTS
            /\ elapsed >= queries * valves.POLL_INTERVAL
            /\ elapsed <= queries * (valves.POLL_INTERVAL + MaxReqDur)
            /\ pc = "done" /\ hist.submitted /\ hist.terminal = "" /\ hist.failure = "" =>
                  /\ queries = valves.MAX_POLL_ATTEMPTS
                  /\ result = Error("no_result_in_time", <<"no result in the allotted time">>)
                  /\ Downloads = {}
            /\ valves.MAX_POLL_ATTEMPTS = 0 => queries = 0

\* the action used all of its two attempts, heard Pending and Processing,
\* and returned the error
C21_Witness ==
    /\ IsAction /\ pc = "done"
    /\ valves.MAX_POLL_ATTEMPTS = 2 /\ Cardinality(GetResults) = 2
    /\ hist.polls = 2 /\ hist.terminal = "" /\ hist.prev = "Processing"
    /\ result.kind = "no_result_in_time"
    /\ elapsed = 2 * valves.POLL_INTERVAL

\* a step from the head of the polling loop of Pipe.pipe issues a status
\* query when the elapsed time is at most the timeout, and raises Timeout
\* otherwise
QueryUntilTimeout ==
    IsPipe /\ pc = "loop" =>
        IF elapsed <= valves.timeout
        THEN /\ Len(reqs') = Len(reqs) + 1
             /\ reqs'[Len(reqs')].kind = "get_result"
        ELSE /\ reqs' = reqs
             /\ pc' = "done" /\ result'.kind = "timeout"

\* the number of status queries of Pipe.pipe is at most floor(T / P) + 1, a
\* timeout is raised after at least one query, and after exactly
\* floor(T / P) + 1 of them when the requests took no time (the time passed
\* is then that of the sleeps, one per query)
QueriesBounded ==
    IsPipe =>
        LET queries == Cardinality(GetResults)
            T == valves.timeout
            P == valves.poll_interval
        IN  /\ queries <= (T \div P) + 1
            /\ result.kind = "timeout" =>
                  /\ queries >= 1
                  /\ elapsed > T
                  /\ elapsed = queries * P => queries = (T \div P) + 1

KnownStatuses == TerminalStatuses \cup {"Pending", "Processing"}

\* C23: in Pipe.pipe a status that is not one of the seven known ones is not
\* terminal: when it arrives the invocation goes on to the sleep of the poll
\* interval without a result, and the caller (when there is an emitter) has
\* received the update "Unknown status: <status>" for it, in this step or,
\* when the status repeats, when it was first heard.
C23_UnknownStatusIsReportedAndPolled ==
    [][IsPipe /\ StatusArrives /\ hist'.prev \notin KnownStatuses =>
          /\ pc' = "sleep" /\ result' = result
          /\ emitter =>
                \/ emitted' = <<Progress(<<"Unknown status: ", hist'.prev>>)>>
                \/ hist.polls > 0 /\ hist.prev = hist'.prev /\ emitted' = <<>>]_vars

\* C24: when an emitter is supplied, the last status event of a finished
\* invocation of Pipe.pipe or Action.action has done = true, on the success
\* path and on every failure path.
C24_LastStatusEventIsDone ==
    (IsPipe \/ IsAction) /\ pc = "done" /\ emitter /\ body.kind # "lookup" =>
        events.last = "true"

\* C25: within one invocation no status event with done = false is emitted
\* after a status event with done = true.
C25_NoStatusAfterDone == ~events.afterDone

\* C26: an invocation that returns an error result (or raises) has created
\* no file in the cache directory, also when the download broke off: a new
\* cache file exists only after a success.
C26_NoFileWithoutSuccess == NewFiles # {} => pc = "done" /\ result.ok

\* C27: when a status query returned Ready and the result object held no
\* sample URL, the invocation issues no download, writes no file, returns an
\* error result, and neither returns nor sends an image marker.
C27_ReadyWithoutSampleIsAnError ==
    hist.terminal = "Ready" /\ ~hist.sampled =>
        /\ Downloads = {} /\ NewFiles = {}
        /\ pc = "done" \/ (IsPipeline /\ pc = "download")
        /\ pc = "done" => ~result.ok /\ result.kind # "raised" /\ result.marker = NoPath
        /\ \A k \in 1..Len(emitted) : emitted[k].type # "message"

\* Action.action with an emitter heard Ready without a sample and returned
\* the error
C27_Witness ==
    /\ IsAction /\ emitter /\ pc = "done"
    /\ hist.terminal = "Ready" /\ ~hist.sampled
    /\ result.kind = "no_result_in_time"

\* the requests of the given kind in the log
RequestsOf(kind) == {i \in 1..Len(reqs) : reqs[i].kind = kind}

\* C28: in Pipe.pipe the translation request is the first request and has
\* succeeded before the generation request is posted; the generation request
\* precedes every status query; the download follows a status query that
\* returned Ready; when the translation fails, no generation request is sent
\* and the invocation returns an error result.
C28_PipeStepsInOrder ==
    IsPipe =>
        /\ \A i \in RequestsOf("translate") : i = 1
        /\ \A i \in Posts : i = 2 /\ reqs[1].kind = "translate" /\ hist.failure # "translate"
        /\ \A i \in GetResults : i > 2 /\ 2 \in Posts
        /\ \A i \in Downloads :
              /\ i = Len(reqs) /\ i - 1 \in GetResults
              /\ hist.terminal = "Ready" /\ hist.prev = "Ready"
        /\ hist.failure = "translate" =>
              Len(reqs) = 1 /\ pc = "done" /\ ~result.ok /\ result.kind # "raised"

\* a whole successful run: translation, submission, two status queries and
\* the download
C28_Witness ==
    /\ IsPipe /\ pc = "done" /\ result.ok
    /\ Len(reqs) = 5
    /\ reqs[1].kind = "translate" /\ reqs[2].kind = "post"
    /\ reqs[3].kind = "get_result" /\ reqs[4].kind = "get_result"
    /\ reqs[5].kind = "download"

\* C29: Pipe.pipe without a BFL or an OpenAI key, and Pipeline.pipe without a
\* BFL key, end with an error result and without any network request: no
\* translation, no submission, no status query, no download.
KeyMissing ==
    \/ IsPipe /\ (~valves.BFL_API_KEY \/ ~valves.OPENAI_API_KEY)
    \/ IsPipeline /\ ~valves.BFL_API_KEY
C29_NoRequestWithoutKey ==
    KeyMissing /\ pc # "idle" =>
        /\ pc = "done" /\ ~result.ok /\ result.kind # "raised"
        /\ reqs = <<>> /\ NewFiles = {}
C29_Witness ==
    /\ IsPipe /\ valves.BFL_API_KEY /\ ~valves.OPENAI_API_KEY
    /\ pc = "done" /\ ~result.ok /\ reqs = <<>>
C29_WitnessPipeline ==
    /\ IsPipeline /\ ~valves.BFL_API_KEY
    /\ pc = "done" /\ ~result.ok /\ reqs = <<>>

\* the path of the first marker of a content that holds one
FirstMarkerPath(content) ==
    LET i == CHOOSE k \in 1..Len(content) :
                 /\ \E n \in 1..Len(content) : MarkerAt(content, k, n)
                 /\ \A j \in 1..(k - 1) : ~\E n \in 1..Len(content) : MarkerAt(content, j, n)
        n == CHOOSE m \in 1..Len(content) : MarkerAt(content, i, m)
    IN  SubSeq(content, i + 1, i + n)

\* the assistant messages of a history that hold a marker
MarkedAssistants(messages) ==
    {a \in AssistantMessages(messages) : HoldsMarker(messages[a].content)}

\* C30: find_generated_image_path returns the path of the last assistant
\* message of the list that holds a BFL Image marker, whatever the messages
\* of other roles hold and wherever they stand; without such an assistant
\* message it returns None.
C30_LookupUsesLastAssistantMarker ==
    pc = "done" /\ body.kind = "lookup" =>
        LET marked == MarkedAssistants(body.messages)
        IN  IF marked = {}
            THEN result.path = <<>>
            ELSE LET last == CHOOSE a \in marked : \A b \in marked : b <= a
                 IN  result.path = FirstMarkerPath(body.messages[last].content)

\* two assistant messages with different markers, then a more recent user
\* message with a marker: the lookup returned the path of the second
\* assistant message
C30_Witness ==
    /\ pc = "done" /\ body.kind = "lookup"
    /\ body.messages = <<Message("assistant", Marker(OLD_IMAGE), "m"),
                         Message("assistant", Marker(NEW_IMAGE) \o Marker(OLD_IMAGE), "m"),
                         Message("user", Marker(OLD_IMAGE), "m")>>
    /\ result.path = <<PathToken(NEW_IMAGE)>>

\* the body holds each of the keys image, mask and prompt
AllThreeKeys == {"image", "mask", "prompt"} \subseteq body.keys

\* C31: an invocation of Action.action is on the inpainting path (it is about
\* to post, or it has posted, to the image-generation service) exactly when
\* the body holds all three keys image, mask and prompt; otherwise it is on
\* the widget path, on which it posts nothing, queries no status, downloads
\* nothing and writes no file to the cache directory.
C31_InpaintingIffAllThreeKeys ==
    IsAction /\ body.kind = "action" =>
        IF AllThreeKeys
        THEN /\ pc # "widget"
             /\ pc = "submit" \/ Posts # {}
             /\ pc = "done" => result.kind \notin {"not_found", "file_missing"}
        ELSE /\ pc \in {"widget", "done"}
             /\ reqs = <<>>
             /\ NewFiles = {}
             /\ pc = "done" => result.kind \in {"ok", "not_found", "file_missing"} /\ result.marker = NoPath

\* a body with image and mask but no prompt went through the widget path to
\* its end
C31_Witness ==
    /\ IsAction /\ body.kind = "action" /\ body.keys = {"image", "mask"}
    /\ pc = "done" /\ result.ok /\ reqs = <<>>

\* the assistant messages of a history that hold an html or a json code block
Artifacts(messages) ==
    {a \in AssistantMessages(messages) :
        \E i \in 1..Len(messages[a].content) : messages[a].content[i] \in {HtmlFence, JsonFence}}

\* the events of a type among the events evs
EventsOfType(evs, type) == {i \in 1..Len(evs) : evs[i].type = type}

\* what the chat holds after the host has appended the content of every
\* message event of evs as an assistant message with the id given
Transcript(messages, evs, id) ==
    IF EventsOfType(evs, "message") = {} THEN messages
    ELSE LET i == CHOOSE k \in EventsOfType(evs, "message") : TRUE
         IN  Append(messages, Message("assistant", evs[i].content, id))

\* C32: when the widget path of Action.action has run to its end with an
\* emitter, a message event with the widget was sent only if no assistant
\* message of the history held an html or json code block, and then exactly
\* one; when such a message exists, no message event was sent: exactly one
\* edit_message event addressed to the id of the last such message when it
\* has an id, and status events only when it has none.  The chat with the
\* new widget message appended holds such a message, under any id, so the
\* next invocation sends no second one.  Without an emitter nothing is sent.
C32_WidgetIsIdempotent ==
    WidgetPath /\ pc = "done" /\ result.ok =>
        LET found == Artifacts(body.messages)
            news == EventsOfType(emitted, "message")
            edits == EventsOfType(emitted, "edit_message")
        IN  /\ ~emitter => emitted = <<>>
            /\ news # {} => found = {}
            /\ emitter /\ found = {} =>
                  /\ Cardinality(news) = 1 /\ edits = {}
                  /\ \A id \in {"", "a1"} : Artifacts(Transcript(body.messages, emitted, id)) # {}
            /\ emitter /\ found # {} =>
                  LET last == CHOOSE a \in found : \A b \in found : b <= a
                  IN  /\ news = {}
                      /\ IF body.messages[last].id # ""
                         THEN /\ Cardinality(edits) = 1
                              /\ \A i \in edits : emitted[i].message_id = body.messages[last].id
                         ELSE edits = {}
                      /\ \A i \in 1..Len(emitted) :
                            emitted[i].type \in {"status", "edit_message"}

\* the history holds two assistant messages with a code block and a more
\* recent user message with one; the action edited the second assistant
\* message and sent no new message
C32_Witness ==
    /\ WidgetPath /\ pc = "done" /\ result.ok /\ emitter
    /\ Len(body.messages) = 3
    /\ Artifacts(body.messages) = {1, 2}
    /\ body.messages[1].id = "a1" /\ body.messages[2].id = "a3"
    /\ body.messages[3].role = "user"
    /\ EventsOfType(emitted, "message") = {}
    /\ \E i \in EventsOfType(emitted, "edit_message") : emitted[i].message_id = "a3"

\* the endpoint that a choice "<endpoint>: <size>" names
EndpointOfChoice(d) == SubSeq(d, 1, Len(d) - 2)

\* Pipeline.pipe was invoked with a key and without inpainting data for the
\* model flux-pro-fill
StandardGeneration ==
    /\ IsPipeline /\ body.kind = "pipeline" /\ valves.BFL_API_KEY
    /\ ~(body.inpainting_data.present /\ body.model_id = "flux-pro-fill")

\* C33: on the standard generation path of Pipeline.pipe, a dimension that
\* is neither "flux-dev: 1440x1440" nor "flux-pro-1.1-ultra: 1:1" ends the
\* invocation with the error "resolution not supported" and without any
\* request; with one of the two the invocation goes on to the submission,
\* and every generation request goes to the endpoint the choice names.
C33_UnsupportedDimensionIsRefused ==
    StandardGeneration =>
        IF valves.dimension \in {Choice(FLUX_DEV, "1440x1440"), Choice(FLUX_ULTRA, "1:1")}
        THEN /\ pc = "submit" \/ Posts # {}
             /\ \A i \in Posts : reqs[i].what.url = EndpointOfChoice(valves.dimension)
             /\ pc = "done" => result.kind # "unsupported_dimension"
        ELSE /\ pc = "done" /\ ~result.ok /\ result.kind = "unsupported_dimension"
             /\ reqs = <<>> /\ NewFiles = {}

\* the dimension is a choice of flux-pro-1.1 and the invocation has ended
\* with the error and without a request
C33_Witness ==
    /\ StandardGeneration /\ valves.dimension = Choice(FLUX_PRO, "1440x896")
    /\ pc = "done" /\ result.kind = "unsupported_dimension" /\ reqs = <<>>


====
